---------------------------- MODULE Spec2Model ----------------------------
(***************************************************************************)
(* A model of the generation session of tensorrt_llm/runtime/generation.py *)
(* (GenerationSession and _Runtime).                                       *)
(*                                                                         *)
(* Spec      : the life cycle of one session on one rank: setup, decode    *)
(*             (regular and streaming), the per-step handler, the stream   *)
(*             guard and the error paths.                                  *)
(* LiveSpec  : Spec with the fairness of the regular decode loop.          *)
(* NamesSpec : the constructor's check of the engine's IO tensor names and *)
(*             the tensor dictionaries bound at each step.                 *)
(* TensorSpec: the decoder's buffers (output_ids, sequence_length_buffer,  *)
(*             the beam hypotheses) from __setup_decoder through the steps *)
(*             of a decode.                                                *)
(* KvSpec    : the paged KV cache manager over the decodes of a session.   *)
(* LoraSpec  : the LoRA tensors of setup.                                  *)
(* PipeSpec  : the decodes of the ranks of a pipeline group.               *)
(* CtxSpec   : the execution contexts of _Runtime and the context each     *)
(*             step launches and binds.                                    *)
(* BufSpec   : the attention window and self.buffer over set-ups with a    *)
(*             decode between them.                                        *)
(* PenaltySpec: the penalties of the sampling configuration of a decode.   *)
(* WordSpec  : to_word_list_format.                                        *)
(* RunSpec   : print_output of examples/run.py.                            *)
(* SetSpec   : _Runtime._set_tensors on one context.                       *)
(* IoSpec    : the KV cache buffers, position ids and past lengths bound   *)
(*             for each launch of a decode.                                *)
(***************************************************************************)
EXTENDS Integers, Sequences, FiniteSets, TLC

(***************************************************************************)
(* Bounds of the model.                                                    *)
(***************************************************************************)
MaxNewTokens == 2

\* The longest string of a word list given to to_word_list_format.
MaxChars == 3

(***************************************************************************)
(* The values the arguments of setup and decode are drawn from.  The code  *)
(* only compares a batch size, a context length or a beam width of decode  *)
(* with the one of setup, so two values of each give every case: a decode  *)
(* can differ from either setup in any of the three, to either side.       *)
(***************************************************************************)
BatchSizes == {1, 2}

ContextLengths == {1, 2}

BeamWidths == {1, 2}

\* <<batch_size, max_context_length, beam_width>> of a setup.
SetupShapes == {<<1, 1, 1>>, <<2, 2, 2>>}

VARIABLES
    \* ---- the session on this rank (GenerationSession.__init__) ----
    pp_size,              \* mapping.pp_size
    pp_rank,              \* mapping.pp_rank
    cuda_graph_mode,      \* self.cuda_graph_mode
    cur_stream,           \* torch.cuda.current_stream()
    \* ---- attributes written by setup() ----
    batch_size,           \* self.batch_size         (Unset before any setup)
    max_context_length,   \* self.max_context_length
    max_new_tokens,       \* self.max_new_tokens
    beam_width,           \* self.beam_width
    max_seq_length,       \* self.max_seq_length
    buffer_allocated,     \* self.buffer_allocated
    \* ---- state written by decode() ----
    decoder,              \* the buffers and the decoder set up by __setup_decoder
    cuda_graph_instances, \* self.runtime.cuda_graph_instances
    \* ---- the control state of the current decode ----
    pc,                   \* where the decode frame or the generator stands
    step,                 \* the loop variable: the next step to run
    should_stop,          \* should_stop of the last executed step
    entry_stream,         \* external_stream saved by cuda_stream_guard
    call,                 \* the arguments of the last decode call
    result,               \* how the last call or resumption ended
    trace,                \* history: what the current decode did, in order
    \* ---- the constructor's name check and the bound dictionaries ----
    cfg,                  \* the ModelConfig flags
    tp_size,              \* mapping.tp_size
    debug_mode,           \* self.debug_mode
    found,                \* the IO tensor names the engine declares
    ctor,                 \* "new", "ok" or "rejected"
    debug_tensors,        \* self.debug_tensors
    bind_args,            \* what the caller passed (prompt table, lora manager)
    bound,                \* the dictionaries built so far: [ctx, gen]
    \* ---- the decoder's buffers (__setup_decoder, handle_per_step) ----
    scfg,                 \* the SamplingConfig and the options of the decode
    input_ids,            \* the input of the decode: rows of token ids
    host_context_lengths, \* the context length of each batch entry
    output_ids,           \* self.output_ids [b][k][t]
    sequence_length_buffer, \* self.sequence_length_buffer, flat
    finished,             \* self.finished, flat
    beam_hyps,            \* the eight self.beam_hyps_* tensors
    gathers,              \* history: the finalize_decoder calls of the decode
    dec_pc,               \* "idle", "decoding" or "done"
    dec_step,             \* the next step of the decode
    prev_sequence_length, \* history: the buffer before the last forward
    \* ---- the paged KV cache (decode, handle_per_step) ----
    tokens_per_block,     \* ModelConfig.tokens_per_block
    kv_cache_manager,     \* self.kv_cache_manager: its sequences, or NoManager
    kv_context_lengths,   \* context_lengths of the decode
    kv_pc,                \* "idle", "decoding", "done" or "raised"
    kv_step,              \* the next step of the decode
    kv_log,               \* history: the calls made to the manager, in order
    \* ---- the LoRA buffers written by setup() ----
    session_lora_manager, \* self.lora_manager: given, or None (FALSE)
    lora_uids,            \* the lora_uids argument of the last setup
    lora_buffer,          \* self.buffer, the entries of the LoRA tensors
    \* ---- the ranks of a pipeline group, each with its own session ----
    pipe,                 \* per rank: where its decode stands, what it did
    pipe_call,            \* the arguments of the decode the ranks run
    runtime,              \* the execution contexts of the engine's runtime
    ctx_run,              \* where the decode over those contexts stands
    ctx_log,              \* the launches and bindings of that decode
    max_attention_window_size,        \* as setup stored it
    host_max_attention_window_sizes,  \* one entry per local layer
    self_buffer,          \* self.buffer: name -> shape and dtype
    setup_call,           \* the arguments of the last setup call
    setup_buffer,         \* self.buffer as the last successful setup left it
    buf_ops,              \* the last calls that returned, newest last
    presence_penalty,     \* self.presence_penalty of __setup_decoder
    repetition_penalty,   \* self.repetition_penalty of __setup_decoder
    word_dict,            \* the argument of to_word_list_format
    word_list,            \* what to_word_list_format returned
    run_args,             \* the arguments of print_output (examples/run.py)
    run_out,              \* what the calls of print_output did
    io_run,               \* where the decode whose tensors are followed stands
    io_log,               \* per launch: the tensors bound for it
    engine_io,            \* the engine's IO tensor names, in its order
    context_io,           \* per name: what is bound on the context
    set_call              \* the last _set_tensors call and how it ended

lifeVars == <<pp_size, pp_rank, cuda_graph_mode, cur_stream, batch_size,
              max_context_length, max_new_tokens, beam_width, max_seq_length,
              buffer_allocated, decoder, cuda_graph_instances, pc, step,
              should_stop, entry_stream, call, result, trace>>

nameVars == <<cfg, tp_size, debug_mode, found, ctor, debug_tensors, bind_args,
              bound>>

tensorVars == <<scfg, input_ids, host_context_lengths, output_ids,
                sequence_length_buffer, finished, beam_hyps, gathers, dec_pc,
                dec_step, prev_sequence_length>>

kvVars == <<tokens_per_block, kv_cache_manager, kv_context_lengths, kv_pc,
            kv_step, kv_log>>

loraVars == <<session_lora_manager, lora_uids, lora_buffer>>

pipeVars == <<pipe, pipe_call>>

ctxVars == <<runtime, ctx_run, ctx_log>>

bufVars == <<max_attention_window_size, host_max_attention_window_sizes,
             self_buffer, setup_call, setup_buffer, buf_ops>>

penVars == <<presence_penalty, repetition_penalty>>

wordVars == <<word_dict, word_list>>

runVars == <<run_args, run_out>>

ioVars == <<io_run, io_log>>

setVars == <<engine_io, context_io, set_call>>

extraVars == <<ioVars, setVars>>

restVars == <<ctxVars, bufVars, penVars, wordVars, runVars, extraVars>>

dataVars == <<tensorVars, kvVars, loraVars, pipeVars, restVars>>

vars == <<lifeVars, nameVars, dataVars>>

(***************************************************************************)
(* Values.                                                                 *)
(***************************************************************************)
\* An attribute that has not been assigned yet.
Unset == -1

\* self.stream, and a stream of the caller's.
SessionStream == "session_stream"

CallerStream == "caller_stream"

Streams == {SessionStream, CallerStream}

\* No cuda graph instance in a slot (None).
NoGraph == -1

\* Before the first __setup_decoder.
NoDecoder == [ready |-> FALSE]

NoCall == [op |-> "none"]

Mappings == {<<1, 0>>, <<2, 0>>, <<2, 1>>}

(***************************************************************************)
(* Mapping.                                                                *)
(***************************************************************************)
is_first_pp_rank == pp_rank = 0

is_last_pp_rank == pp_rank = pp_size - 1

has_pp == pp_size > 1

(***************************************************************************)
(* cuda_stream_guard.                                                      *)
(***************************************************************************)
\* The current stream once the wrapper has run its prologue.
GuardEnter(external_stream) ==
    IF external_stream # SessionStream THEN SessionStream ELSE external_stream

\* The current stream when func returned and the wrapper's epilogue ran.
GuardReturn(external_stream, current) ==
    IF external_stream # SessionStream THEN external_stream ELSE current

\* The current stream when func raised: the epilogue is not in a finally
\* block, so it does not run.
GuardRaise(external_stream, current) == current


(***************************************************************************)
(* How a call or a resumption of the generator ended.                      *)
(***************************************************************************)
Res(from, kind, what) == [from |-> from, kind |-> kind, what |-> what]

NoResult == Res("none", "none", "none")

\* An entry of the history of the current decode.
\* ok is FALSE for an engine launch that reported failure.
Ev(kind, s, arg, ok) ==
    [ev |-> kind, step |-> s, stream |-> cur_stream, arg |-> arg, ok |-> ok]

(***************************************************************************)
(* setup(): the attributes it stores for decode() to check against.  The   *)
(* per-layer window tensor of a wrong length fails at "assert False",      *)
(* after the attributes are stored and before buffer_allocated is set.     *)
(***************************************************************************)
Setup(bs, mcl, mnt, bw, window_ok) ==
    /\ pc = "idle"
    /\ batch_size' = bs
    /\ max_context_length' = mcl
    /\ max_new_tokens' = mnt
    /\ max_seq_length' = mcl + mnt
    /\ beam_width' = bw
    /\ buffer_allocated' = IF window_ok THEN TRUE ELSE buffer_allocated
    /\ result' = IF window_ok THEN Res("setup", "return", "none")
                              ELSE Res("setup", "raise", "AssertionError")
    /\ call' = [op |-> "setup"]
    \* the history below is the one of the last decode: a setup starts anew
    /\ trace' = <<>>
    /\ step' = 0
    /\ should_stop' = FALSE
    /\ entry_stream' = cur_stream
    /\ UNCHANGED <<pp_size, pp_rank, cuda_graph_mode, cur_stream, decoder,
                   cuda_graph_instances, pc>>
    /\ UNCHANGED <<nameVars, dataVars>>

(***************************************************************************)
(* The caller makes another stream current (torch.cuda.set_stream or a     *)
(* torch.cuda.stream block) between two calls into the session.            *)
(***************************************************************************)
CallerSetStream(s) ==
    /\ pc \in {"idle", "gen_start", "gen_yield", "gen_final"}
    /\ s # cur_stream
    /\ cur_stream' = s
    /\ result' = Res("caller", "return", "none")
    \* with no generator alive, the history of the last decode is dropped
    /\ IF pc = "idle"
       THEN /\ call' = [op |-> "set_stream"]
            /\ trace' = <<>>
            /\ step' = 0
            /\ should_stop' = FALSE
            /\ entry_stream' = s
       ELSE UNCHANGED <<call, trace, step, should_stop, entry_stream>>
    /\ UNCHANGED <<pp_size, pp_rank, cuda_graph_mode, batch_size,
                   max_context_length, max_new_tokens, beam_width,
                   max_seq_length, buffer_allocated, decoder,
                   cuda_graph_instances, pc>>
    /\ UNCHANGED <<nameVars, dataVars>>

(***************************************************************************)
(* decode(): the three asserts on the arguments.                           *)
(***************************************************************************)
DecodeArgsMatch_le(bs, mcl, bw) ==
    /\ bs = batch_size
    /\ mcl <= max_context_length
    /\ bw = beam_width

DecodeArgsMatch(bs, mcl, bw) ==
    /\ bs = batch_size
    /\ mcl = max_context_length
    /\ bw = beam_width

\* __setup_decoder: the decoder and the buffers it (re)creates, in their
\* initial state.
SetupDecoder(bs, mcl, bw) ==
    [ready |-> TRUE, batch_size |-> bs, num_beams |-> bw, fresh |-> TRUE]

\* How far decode() gets before decode_regular / decode_stream is called.
\*   "AttributeError"     : self.batch_size does not exist before a setup
\*   "AssertionError"     : an argument differs from the one given to setup
\*   "PenaltyConflict"    : the assert of __setup_decoder on the penalties
\*   "BufferNotAllocated" : the RuntimeError after __setup_decoder
DecodeEntry(bs, mcl, bw, conflict) ==
    IF batch_size = Unset THEN "AttributeError"
    ELSE IF ~DecodeArgsMatch(bs, mcl, bw) THEN "AssertionError"
    ELSE IF conflict THEN "PenaltyConflict"
    ELSE IF ~buffer_allocated THEN "BufferNotAllocated"
    ELSE "ok"

\* __setup_decoder has run to its end exactly in these cases.
DecoderAfterEntry(entry, bs, mcl, bw) ==
    IF entry \in {"BufferNotAllocated", "ok"} THEN SetupDecoder(bs, mcl, bw)
    ELSE decoder

DecodeLife(bs, mcl, bw, streaming, criteria, processor, conflict) ==
    /\ pc = "idle"
    \* the sampling configuration and the callbacks are read only when the
    \* asserts on the arguments have passed
    /\ (conflict \/ criteria \/ processor) =>
            (batch_size # Unset /\ DecodeArgsMatch(bs, mcl, bw))
    /\ conflict => ~(criteria \/ processor)
    /\ LET external_stream == cur_stream
           inside == GuardEnter(external_stream)
           entry == DecodeEntry(bs, mcl, bw, conflict)
       IN /\ entry_stream' = external_stream
          /\ call' = [op |-> "decode", batch_size |-> bs,
                      max_context_length |-> mcl, beam_width |-> bw,
                      streaming |-> streaming, criteria |-> criteria,
                      processor |-> processor, conflict |-> conflict]
          /\ decoder' = DecoderAfterEntry(entry, bs, mcl, bw)
          /\ trace' = <<>>
          /\ step' = 0
          /\ should_stop' = FALSE
          /\ IF entry # "ok"
             THEN /\ pc' = "idle"
                  /\ result' = Res("decode", "raise", entry)
                  /\ cur_stream' = GuardRaise(external_stream, inside)
             ELSE IF streaming
             THEN \* decode_stream(...) only creates the generator
                  /\ pc' = "gen_start"
                  /\ result' = Res("decode", "return", "generator")
                  /\ cur_stream' = GuardReturn(external_stream, inside)
             ELSE /\ pc' = "running"
                  /\ result' = NoResult
                  /\ cur_stream' = inside
    /\ UNCHANGED <<pp_size, pp_rank, cuda_graph_mode, batch_size,
                   max_context_length, max_new_tokens, beam_width,
                   max_seq_length, buffer_allocated, cuda_graph_instances>>

DecodeCall(bs, mcl, bw, streaming, criteria, processor, conflict) ==
    /\ DecodeLife(bs, mcl, bw, streaming, criteria, processor, conflict)
    /\ UNCHANGED <<nameVars, dataVars>>

(***************************************************************************)
(* handle_per_step(step).  The inputs are what the collaborators do:       *)
(*   fault        : "none", or the place where this invocation raises      *)
(*                  "bind_ctx"  building or binding the context tensors    *)
(*                  "launch"    the engine launch reports failure          *)
(*                  "bind_next" building or binding the next step's tensors*)
(*                  "decoder"   dynamic_decoder.forward raises             *)
(*   verdict      : the should_stop that dynamic_decoder.forward returns   *)
(*   crit         : what the stopping criterion answers when it is asked   *)
(* The value is what the invocation did: the exception it raised ("none"   *)
(* when it returned), its history entries, the graph slots it left, its    *)
(* should_stop and whether the decoder's forward was invoked.              *)
(***************************************************************************)

\* "if not ok: raise RuntimeError('Executing TRT engine failed!')", and
\* CUASSERT around cudaGraphLaunch.
LaunchRaises_never(fault) == FALSE

LaunchRaises(fault) == fault = "launch"

\* The graph slot the launch of step s goes through, or NoGraph for _run.
LaunchSlot(s, graphs) ==
    IF cuda_graph_mode /\ graphs[s % 2] # NoGraph THEN graphs[s % 2] ELSE NoGraph

\* "if not step == self.max_new_tokens - 1": the next step is prepared.
PreparesNext_always(s) == TRUE

PreparesNext(s) == s # max_new_tokens - 1

\* "if stopping_criteria is not None and not should_stop.item()"
CriteriaAsked_always(verdict) == call.criteria

CriteriaAsked(verdict) == call.criteria /\ ~verdict

HandlePerStep(s, fault, verdict, crit) ==
    LET cleared == IF s = 0 /\ cuda_graph_mode
                   THEN [i \in 0..1 |-> NoGraph]
                   ELSE cuda_graph_instances
        via == IF LaunchSlot(s, cleared) # NoGraph THEN "graph" ELSE "run"
        launch == <<Ev("launch", s, via, fault # "launch")>>
        captured == IF PreparesNext(s) /\ cuda_graph_mode
                    THEN [cleared EXCEPT ![(s + 1) % 2] = s + 1]
                    ELSE cleared
        \* "if logits_processor is not None": finalize_decoder, then the
        \* processor on the ids it returned
        gathered == IF call.processor
                    THEN <<Ev("finalize", s, "in_progress", TRUE)>> ELSE <<>>
        processed == IF call.processor
                     THEN <<Ev("processor", s, "logits", TRUE)>> ELSE <<>>
        forward == <<Ev("decoder", s,
                        IF fault = "decoder" THEN "raised"
                        ELSE IF verdict THEN "stop" ELSE "continue", TRUE)>>
        asked == CriteriaAsked(verdict)
        judged == IF asked
                  THEN <<Ev("finalize", s, "in_progress", TRUE)>> ELSE <<>>
        answered == IF asked
                    THEN <<Ev("criteria", s,
                              IF crit THEN "stop" ELSE "continue", TRUE)>>
                    ELSE <<>>
        stop == IF asked THEN crit ELSE verdict
        Out(raised, events, graphs, stopped, decoded) ==
            [raised |-> raised, events |-> events, graphs |-> graphs,
             stop |-> stopped, decoded |-> decoded]
    IN  IF s = 0 /\ fault = "bind_ctx"
        THEN Out("BindError", <<>>, cuda_graph_instances, FALSE, FALSE)
        ELSE IF LaunchRaises(fault)
        THEN Out("LaunchError", launch, cleared, FALSE, FALSE)
        ELSE IF PreparesNext(s) /\ fault = "bind_next"
        THEN Out("BindError", launch, cleared, FALSE, FALSE)
        ELSE IF has_pp /\ is_last_pp_rank /\ call.processor
        THEN \* the finalize_decoder made for the processor ends in
             \* pp_communicate_final_output_ids, which uses self.nccl_comm:
             \* no code of the session creates it
             Out("AttributeError", launch \o gathered, captured, FALSE, FALSE)
        ELSE IF is_last_pp_rank /\ fault = "decoder"
        THEN Out("DecoderError", launch \o gathered \o processed \o forward,
                 captured, FALSE, TRUE)
        ELSE IF has_pp
        THEN \* the finalize_decoder made for the criterion, or else
             \* pp_communicate_new_tokens, uses self.nccl_comm
             Out("AttributeError",
                 launch \o (IF is_last_pp_rank
                            THEN forward \o judged ELSE <<>>),
                 captured, FALSE, is_last_pp_rank)
        ELSE Out("none",
                 launch \o gathered \o processed \o forward \o judged
                        \o answered,
                 captured, stop, TRUE)

\* The faults that can occur in step s on this rank.
Faults(s) ==
    {"none", "launch"}
        \cup (IF s = 0 THEN {"bind_ctx"} ELSE {})
        \cup (IF PreparesNext(s) THEN {"bind_next"} ELSE {})
        \cup (IF is_last_pp_rank THEN {"decoder"} ELSE {})

\* The decoder's buffers once forward has been invoked on them.
DecoderAfterStep(out) ==
    IF out.decoded THEN [decoder EXCEPT !.fresh = FALSE] ELSE decoder

(***************************************************************************)
(* finalize_decoder(in_progress): gather_tree on the last rank, then the   *)
(* exchange of the final output ids when there is pipeline parallelism.    *)
(***************************************************************************)
FinalizeDecoder(s, mode) ==
    [raised |-> IF has_pp /\ (is_last_pp_rank \/ is_first_pp_rank)
                THEN "AttributeError" ELSE "none",
     events |-> <<Ev("finalize", s, mode, TRUE)>>]

\* "for step in range(0, self.max_new_tokens)"
LoopRange_inclusive(n) == 0 .. n

LoopRange(n) == 0 .. (n - 1)

\* decode_regular: "if should_stop is not None and should_stop.item()"
StopRequested_never(stop) == FALSE

StopRequested(stop) == stop

\* decode_regular: the finalize_decoder call made before it returns.
RegularFinalize_skipped(s) == [raised |-> "none", events |-> <<>>]

RegularFinalize(s) == FinalizeDecoder(s, "final")

(***************************************************************************)
(* decode_regular: one iteration of the loop, with the return from inside  *)
(* the loop when should_stop is set.                                       *)
(***************************************************************************)
RegularStep(fault, verdict, crit) ==
    /\ pc = "running"
    /\ step \in LoopRange(max_new_tokens)
    /\ LET out == HandlePerStep(step, fault, verdict, crit)
           stops == out.raised = "none" /\ StopRequested(out.stop)
           fin == RegularFinalize(step)
           raised == IF out.raised # "none" THEN out.raised
                     ELSE IF stops THEN fin.raised ELSE "none"
       IN /\ trace' = trace \o out.events
                            \o (IF stops THEN fin.events ELSE <<>>)
          /\ cuda_graph_instances' = out.graphs
          /\ decoder' = DecoderAfterStep(out)
          /\ should_stop' = out.stop
          /\ IF raised # "none"
             THEN /\ pc' = "idle"
                  /\ step' = step
                  /\ result' = Res("decode", "raise", raised)
                  /\ cur_stream' = GuardRaise(entry_stream, cur_stream)
             ELSE IF stops
             THEN /\ pc' = "idle"
                  /\ step' = step
                  /\ result' = Res("decode", "return", "output_ids")
                  /\ cur_stream' = GuardReturn(entry_stream, cur_stream)
             ELSE /\ pc' = "running"
                  /\ step' = step + 1
                  /\ result' = result
                  /\ cur_stream' = cur_stream
    /\ UNCHANGED <<pp_size, pp_rank, cuda_graph_mode, batch_size,
                   max_context_length, max_new_tokens, beam_width,
                   max_seq_length, buffer_allocated, entry_stream, call>>
    /\ UNCHANGED <<nameVars, dataVars>>

(***************************************************************************)
(* decode_regular: the loop ran out of steps; finalize and return.         *)
(***************************************************************************)
RegularExhausted ==
    /\ pc = "running"
    /\ step \notin LoopRange(max_new_tokens)
    /\ LET fin == RegularFinalize(step - 1)
       IN /\ trace' = trace \o fin.events
          /\ pc' = "idle"
          /\ IF fin.raised # "none"
             THEN /\ result' = Res("decode", "raise", fin.raised)
                  /\ cur_stream' = GuardRaise(entry_stream, cur_stream)
             ELSE /\ result' = Res("decode", "return", "output_ids")
                  /\ cur_stream' = GuardReturn(entry_stream, cur_stream)
    /\ UNCHANGED <<pp_size, pp_rank, cuda_graph_mode, batch_size,
                   max_context_length, max_new_tokens, beam_width,
                   max_seq_length, buffer_allocated, decoder,
                   cuda_graph_instances, step, should_stop, entry_stream,
                   call>>
    /\ UNCHANGED <<nameVars, dataVars>>

(***************************************************************************)
(* decode_stream, a generator: it runs when the caller resumes it, on the  *)
(* stream that is current then.                                            *)
(***************************************************************************)
\* "if should_stop.item(): return", the first thing a resumption does after
\* a yield of the loop.
StreamReturns_never(stop) == FALSE

StreamReturns(stop) == stop

\* The generator is suspended where the loop goes on when it is resumed.
StreamInLoop ==
    \/ pc = "gen_start"
    \/ pc = "gen_yield" /\ ~StreamReturns(should_stop)

\* A resumption that runs one step and suspends at the yield of the loop.
StreamStep(fault, verdict, crit) ==
    /\ StreamInLoop
    /\ step \in LoopRange(max_new_tokens)
    /\ LET out == HandlePerStep(step, fault, verdict, crit)
           fin == FinalizeDecoder(step, "in_progress")
           raised == IF out.raised # "none" THEN out.raised ELSE fin.raised
       IN /\ cuda_graph_instances' = out.graphs
          /\ decoder' = DecoderAfterStep(out)
          /\ should_stop' = out.stop
          /\ IF raised # "none"
             THEN /\ trace' = trace \o out.events
                              \o (IF out.raised = "none" THEN fin.events
                                  ELSE <<>>)
                  /\ pc' = "idle"
                  /\ step' = step
                  /\ result' = Res("generator", "raise", raised)
             ELSE /\ trace' = trace \o out.events \o fin.events
                              \o <<Ev("yield", step, "in_progress", TRUE)>>
                  /\ pc' = "gen_yield"
                  /\ step' = step + 1
                  /\ result' = Res("generator", "yield", "output_ids")
    /\ UNCHANGED <<pp_size, pp_rank, cuda_graph_mode, cur_stream, batch_size,
                   max_context_length, max_new_tokens, beam_width,
                   max_seq_length, buffer_allocated, entry_stream, call>>
    /\ UNCHANGED <<nameVars, dataVars>>

\* A resumption after the yield of a step whose should_stop was true.
StreamStopReturn ==
    /\ pc = "gen_yield"
    /\ StreamReturns(should_stop)
    /\ pc' = "idle"
    /\ result' = Res("generator", "return", "StopIteration")
    /\ UNCHANGED <<pp_size, pp_rank, cuda_graph_mode, cur_stream, batch_size,
                   max_context_length, max_new_tokens, beam_width,
                   max_seq_length, buffer_allocated, decoder,
                   cuda_graph_instances, step, should_stop, entry_stream,
                   call, trace>>
    /\ UNCHANGED <<nameVars, dataVars>>

\* A resumption that finds the loop out of steps: the code after the loop.
StreamExhausted ==
    /\ StreamInLoop
    /\ step \notin LoopRange(max_new_tokens)
    /\ LET fin == FinalizeDecoder(step - 1, "final")
       IN IF fin.raised # "none"
          THEN /\ trace' = trace \o fin.events
               /\ pc' = "idle"
               /\ result' = Res("generator", "raise", fin.raised)
          ELSE /\ trace' = trace \o fin.events
                           \o <<Ev("yield", step - 1, "final", TRUE)>>
               /\ pc' = "gen_final"
               /\ result' = Res("generator", "yield", "output_ids")
    /\ UNCHANGED <<pp_size, pp_rank, cuda_graph_mode, cur_stream, batch_size,
                   max_context_length, max_new_tokens, beam_width,
                   max_seq_length, buffer_allocated, decoder,
                   cuda_graph_instances, step, should_stop, entry_stream,
                   call>>
    /\ UNCHANGED <<nameVars, dataVars>>

\* A resumption after the yield that follows the loop: the generator ends.
StreamEnd ==
    /\ pc = "gen_final"
    /\ pc' = "idle"
    /\ result' = Res("generator", "return", "StopIteration")
    /\ UNCHANGED <<pp_size, pp_rank, cuda_graph_mode, cur_stream, batch_size,
                   max_context_length, max_new_tokens, beam_width,
                   max_seq_length, buffer_allocated, decoder,
                   cuda_graph_instances, step, should_stop, entry_stream,
                   call, trace>>
    /\ UNCHANGED <<nameVars, dataVars>>

\* The caller drops the generator without draining it.
StreamDropped ==
    /\ pc \in {"gen_start", "gen_yield", "gen_final"}
    /\ pc' = "idle"
    /\ result' = Res("caller", "return", "dropped")
    /\ UNCHANGED <<pp_size, pp_rank, cuda_graph_mode, cur_stream, batch_size,
                   max_context_length, max_new_tokens, beam_width,
                   max_seq_length, buffer_allocated, decoder,
                   cuda_graph_instances, step, should_stop, entry_stream,
                   call, trace>>
    /\ UNCHANGED <<nameVars, dataVars>>

(***************************************************************************)
(* The ModelConfig flags that decide the names of the engine's IO tensors. *)
(***************************************************************************)
LoraTargetModules == {"attn_qkv"}

ModelLayers == {2}

PromptTableSizes == {0, 1}

Configs ==
    [gpt_attention_plugin            : BOOLEAN,
     paged_kv_cache                  : BOOLEAN,
     remove_input_padding            : BOOLEAN,
     gather_all_token_logits         : BOOLEAN,
     cross_attention                 : BOOLEAN,
     has_position_embedding          : BOOLEAN,
     has_token_type_embedding        : BOOLEAN,
     use_custom_all_reduce           : BOOLEAN,
     lora_plugin                     : BOOLEAN,
     max_prompt_embedding_table_size : PromptTableSizes,
     lora_target_modules             : {LoraTargetModules},
     num_layers                      : ModelLayers]

DefaultConfig ==
    [gpt_attention_plugin            |-> FALSE,
     paged_kv_cache                  |-> FALSE,
     remove_input_padding            |-> FALSE,
     gather_all_token_logits         |-> FALSE,
     cross_attention                 |-> FALSE,
     has_position_embedding          |-> FALSE,
     has_token_type_embedding        |-> FALSE,
     use_custom_all_reduce           |-> FALSE,
     lora_plugin                     |-> FALSE,
     max_prompt_embedding_table_size |-> 0,
     lora_target_modules             |-> LoraTargetModules,
     num_layers                      |-> 2]

TpSizes == {1, 2}

num_layers == cfg.num_layers \div pp_size

first_layer == num_layers * pp_rank

last_layer == first_layer + num_layers

\* range(first_layer, last_layer)
LayerRange == first_layer..(last_layer - 1)

\* [f'{base}_{i}' for i in range(self.first_layer, self.last_layer)]
PerLayer(base) == {base \o "_" \o ToString(i) : i \in LayerRange}

LoraRanks == UNION {PerLayer(m \o "_lora_ranks") : m \in cfg.lora_target_modules}

LoraWeightsPointers ==
    UNION {PerLayer(m \o "_lora_weights_pointers") :
              m \in cfg.lora_target_modules}

(***************************************************************************)
(* expected_tensor_names of __init__.                                      *)
(***************************************************************************)
ExpectedTensorNames ==
    (IF is_first_pp_rank THEN {"input_ids"} ELSE {"hidden_states_input"})
    \cup (IF is_last_pp_rank
          THEN {"logits"}
               \cup (IF ~cfg.gather_all_token_logits
                     THEN {"last_token_ids"} ELSE {})
          ELSE {"hidden_states_output"})
    \cup (IF cfg.has_position_embedding /\ is_first_pp_rank
          THEN {"position_ids"} ELSE {})
    \cup (IF cfg.has_token_type_embedding /\ is_first_pp_rank
          THEN {"token_type_ids"} ELSE {})
    \cup {"cache_indirection"}
    \cup (IF cfg.paged_kv_cache
          THEN PerLayer("kv_cache_block_pointers")
               \cup PerLayer("host_kv_cache_block_pointers")
          ELSE PerLayer("past_key_value") \cup PerLayer("present_key_value"))
    \cup (IF cfg.gpt_attention_plugin
          THEN {"sequence_length", "context_lengths", "host_request_types",
                "host_past_key_value_lengths"}
               \cup PerLayer("host_max_attention_window_size")
               \cup (IF cfg.remove_input_padding
                     THEN {"host_context_lengths"} ELSE {})
          ELSE {"attention_mask"})
    \cup (IF cfg.max_prompt_embedding_table_size > 0
          THEN {"prompt_embedding_table", "tasks", "prompt_vocab_size"}
          ELSE {})
    \cup (IF cfg.cross_attention
          THEN PerLayer("cross_present_key_value")
               \cup PerLayer("cross_past_key_value")
               \cup {"encoder_output", "encoder_input_lengths",
                     "encoder_max_input_length"}
          ELSE {})
    \cup (IF tp_size > 1 /\ cfg.use_custom_all_reduce
          THEN {"all_reduce_workspace"} ELSE {})
    \cup (IF cfg.lora_plugin
          THEN LoraRanks \cup LoraWeightsPointers ELSE {})

(***************************************************************************)
(* The name check of __init__: outside debug mode the set of the expected  *)
(* names must be the set of the names the engine declares.                 *)
(***************************************************************************)
NamesRejected_missing_only(debug, expected, fnd) ==
    ~debug /\ ~(expected \subseteq fnd)

NamesRejected(debug, expected, fnd) == ~debug /\ expected # fnd

\* self.debug_tensors, assigned in debug mode only.
DebugTensors(expected, fnd) == fnd \ expected

NoArgs == [setup |-> "none", lora_manager |-> FALSE,
           prompt_embedding_table |-> FALSE]

NoBound == [phase |-> "none", step |-> 0, raised |-> "none", names |-> {}]

\* The engines a session is constructed on: the engine built for this
\* configuration, one that lacks a tensor, one with a tensor more, and one
\* with both.
Engines ==
    LET expected == ExpectedTensorNames
    IN  {expected,
         expected \ {"cache_indirection"},
         expected \cup {"debug_probe"},
         (expected \ {"cache_indirection"}) \cup {"debug_probe"}}

Construct(engine) ==
    /\ ctor = "new"
    /\ found' = engine
    /\ IF NamesRejected(debug_mode, ExpectedTensorNames, engine)
       THEN /\ ctor' = "rejected"
            /\ result' = Res("__init__", "raise", "RuntimeError")
            /\ UNCHANGED debug_tensors
       ELSE /\ ctor' = "ok"
            /\ result' = Res("__init__", "return", "session")
            /\ debug_tensors' = IF debug_mode
                                THEN DebugTensors(ExpectedTensorNames, engine)
                                ELSE debug_tensors
    /\ UNCHANGED <<cfg, tp_size, debug_mode, bind_args, bound>>
    /\ UNCHANGED <<pp_size, pp_rank, cuda_graph_mode, cur_stream, batch_size,
                   max_context_length, max_new_tokens, beam_width,
                   max_seq_length, buffer_allocated, decoder,
                   cuda_graph_instances, pc, step, should_stop, entry_stream,
                   call, trace>>
    /\ UNCHANGED dataVars

(***************************************************************************)
(* The keys of self.buffer that setup creates.  The shape of the cross KV  *)
(* buffers is only computed without the paged KV cache, so that setup      *)
(* raises when it comes to allocate them with the paged KV cache.          *)
(***************************************************************************)
SetupBuffersRaise ==
    IF cfg.paged_kv_cache /\ cfg.cross_attention
    THEN "UnboundLocalError" ELSE "none"

BufferNames ==
    (IF is_last_pp_rank THEN {"logits"} ELSE {})
    \cup (IF cfg.cross_attention THEN {"encoder_max_input_length"} ELSE {})
    \cup PerLayer("present_key_value")
    \cup (IF cfg.cross_attention
          THEN PerLayer("cross_present_key_value") ELSE {})
    \cup (IF ~cfg.gpt_attention_plugin
          THEN PerLayer("1_present_key_value") ELSE {})
    \cup (IF cfg.lora_plugin /\ bind_args.lora_manager
          THEN LoraRanks \cup LoraWeightsPointers ELSE {})

\* setup, as far as the buffers go: lora_manager is whether the caller
\* passed a LoRA manager.
SetupBuffers(lora_manager) ==
    /\ ctor = "ok"
    /\ bind_args.setup = "none"
    /\ lora_manager => cfg.lora_plugin
    /\ bind_args' = [bind_args EXCEPT
                        !.setup = IF SetupBuffersRaise = "none"
                                  THEN "ok" ELSE "raised",
                        !.lora_manager = lora_manager]
    /\ result' = IF SetupBuffersRaise = "none"
                 THEN Res("setup", "return", "none")
                 ELSE Res("setup", "raise", SetupBuffersRaise)
    /\ UNCHANGED <<cfg, tp_size, debug_mode, found, ctor, debug_tensors,
                   bound>>
    /\ UNCHANGED <<pp_size, pp_rank, cuda_graph_mode, cur_stream, batch_size,
                   max_context_length, max_new_tokens, beam_width,
                   max_seq_length, buffer_allocated, decoder,
                   cuda_graph_instances, pc, step, should_stop, entry_stream,
                   call, trace>>
    /\ UNCHANGED dataVars

(***************************************************************************)
(* The keys of the dictionary _get_context_shape_buffer returns.           *)
(***************************************************************************)
\* self.buffer[...] of a key that setup did not create raises KeyError.
LoraBindRaises == cfg.lora_plugin /\ ~(LoraRanks \subseteq BufferNames)

ContextTensorNames(prompt_embedding_table) ==
    (IF cfg.gpt_attention_plugin THEN {"context_lengths"} ELSE {})
    \cup {"cache_indirection"}
    \cup (IF cfg.has_position_embedding THEN {"position_ids"} ELSE {})
    \cup (IF cfg.cross_attention
          THEN {"encoder_output", "encoder_input_lengths",
                "encoder_max_input_length"}
          ELSE {})
    \cup (IF is_last_pp_rank
          THEN {"logits"}
               \cup (IF ~cfg.gather_all_token_logits
                     THEN {"last_token_ids"} ELSE {})
          ELSE {"hidden_states_output"})
    \cup (IF is_first_pp_rank THEN {"input_ids"} ELSE {"hidden_states_input"})
    \cup (IF prompt_embedding_table
          THEN {"prompt_embedding_table", "tasks", "prompt_vocab_size"}
          ELSE {})
    \cup (IF cfg.paged_kv_cache
          THEN PerLayer("kv_cache_block_pointers")
               \cup PerLayer("host_kv_cache_block_pointers")
          ELSE PerLayer("past_key_value")
               \cup PerLayer("present_key_value")
               \cup (IF cfg.cross_attention
                     THEN PerLayer("cross_past_key_value")
                          \cup PerLayer("cross_present_key_value")
                     ELSE {}))
    \cup (IF cfg.gpt_attention_plugin
          THEN {"sequence_length", "host_past_key_value_lengths",
                "host_request_types"}
               \cup PerLayer("host_max_attention_window_size")
               \cup (IF cfg.remove_input_padding
                     THEN {"host_context_lengths"} ELSE {})
          ELSE {"attention_mask"})
    \cup (IF cfg.use_custom_all_reduce /\ tp_size > 1
          THEN {"all_reduce_workspace"} ELSE {})
    \cup (IF cfg.lora_plugin
          THEN LoraRanks \cup LoraWeightsPointers ELSE {})

(***************************************************************************)
(* The keys of the dictionary _get_next_step_shape_buffer returns.         *)
(***************************************************************************)
NextStepTensorNames(prompt_embedding_table) ==
    (IF cfg.gpt_attention_plugin THEN {"context_lengths"} ELSE {})
    \cup {"cache_indirection"}
    \cup (IF is_last_pp_rank
          THEN {"logits"}
               \cup (IF ~cfg.gather_all_token_logits
                     THEN {"last_token_ids"} ELSE {})
          ELSE {"hidden_states_output"})
    \cup (IF is_first_pp_rank THEN {"input_ids"} ELSE {"hidden_states_input"})
    \cup (IF cfg.remove_input_padding THEN {"host_context_lengths"} ELSE {})
    \cup (IF cfg.has_position_embedding THEN {"position_ids"} ELSE {})
    \cup (IF cfg.cross_attention
          THEN {"encoder_output", "encoder_input_lengths",
                "encoder_max_input_length"}
          ELSE {})
    \cup (IF cfg.paged_kv_cache
          THEN PerLayer("kv_cache_block_pointers")
               \cup PerLayer("host_kv_cache_block_pointers")
          ELSE {})
    \cup (IF prompt_embedding_table
          THEN {"prompt_embedding_table", "tasks", "prompt_vocab_size"}
          ELSE {})
    \cup (IF ~cfg.paged_kv_cache
          THEN PerLayer("past_key_value")
               \cup PerLayer("present_key_value")
               \cup (IF cfg.gpt_attention_plugin /\ cfg.cross_attention
                     THEN PerLayer("cross_past_key_value")
                          \cup PerLayer("cross_present_key_value")
                     ELSE {})
          ELSE {})
    \cup (IF cfg.gpt_attention_plugin
          THEN {"host_past_key_value_lengths", "host_request_types",
                "sequence_length"}
               \cup PerLayer("host_max_attention_window_size")
               \cup (IF cfg.remove_input_padding
                     THEN {"host_context_lengths"} ELSE {})
          ELSE {"attention_mask"})
    \cup (IF cfg.use_custom_all_reduce /\ tp_size > 1
          THEN {"all_reduce_workspace"} ELSE {})
    \cup (IF cfg.lora_plugin
          THEN LoraRanks \cup LoraWeightsPointers ELSE {})

\* Step 0 of handle_per_step builds the context dictionary; prompt is
\* whether decode was given a prompt_embedding_table.
BindContext(prompt) ==
    /\ ctor = "ok"
    /\ bind_args.setup = "ok"
    /\ bound.phase = "none"
    /\ prompt => cfg.max_prompt_embedding_table_size > 0
    /\ bind_args' = [bind_args EXCEPT !.prompt_embedding_table = prompt]
    /\ bound' = IF LoraBindRaises
                THEN [phase |-> "context", step |-> 0,
                      raised |-> "KeyError", names |-> {}]
                ELSE [phase |-> "context", step |-> 0, raised |-> "none",
                      names |-> ContextTensorNames(prompt)]
    /\ result' = IF LoraBindRaises
                 THEN Res("decode", "raise", "KeyError")
                 ELSE Res("handle_per_step", "return", "ctx_tensors")
    /\ UNCHANGED <<cfg, tp_size, debug_mode, found, ctor, debug_tensors>>
    /\ UNCHANGED <<pp_size, pp_rank, cuda_graph_mode, cur_stream, batch_size,
                   max_context_length, max_new_tokens, beam_width,
                   max_seq_length, buffer_allocated, decoder,
                   cuda_graph_instances, pc, step, should_stop, entry_stream,
                   call, trace>>
    /\ UNCHANGED dataVars

\* A step that is not the last one builds the dictionary of the next step.
BindNextStep ==
    /\ bound.phase \in {"context", "generation"}
    /\ bound.raised = "none"
    /\ bound.step + 1 < MaxNewTokens
    /\ bound' = [phase |-> "generation", step |-> bound.step + 1,
                 raised |-> "none",
                 names |-> NextStepTensorNames(
                               bind_args.prompt_embedding_table)]
    /\ result' = Res("handle_per_step", "return", "next_step_tensors")
    /\ UNCHANGED <<cfg, tp_size, debug_mode, found, ctor, debug_tensors,
                   bind_args>>
    /\ UNCHANGED <<pp_size, pp_rank, cuda_graph_mode, cur_stream, batch_size,
                   max_context_length, max_new_tokens, beam_width,
                   max_seq_length, buffer_allocated, decoder,
                   cuda_graph_instances, pc, step, should_stop, entry_stream,
                   call, trace>>
    /\ UNCHANGED dataVars

(***************************************************************************)
(* The decoder's buffers.  Tensors are sequences (from 1): a tensor of     *)
(* shape [n] is a sequence of n values, one of shape [n, m] a sequence of  *)
(* n rows.  The token of batch entry b at position t of its input is       *)
(* InputToken(b, t), so that every token of the input tells where it comes *)
(* from; the end id and the pad id are smaller than every input token.     *)
(***************************************************************************)
InputToken(b, t) == 10 * b + t

\* The token the decoder samples in step s.
SampledToken(s) == 100 + s

EndIds == {0}

PadIds == {0, 1}

Max(S) == CHOOSE x \in S : \A y \in S : y <= x

\* torch.max of a tensor of shape [n]
TensorMax(q) == Max({q[i] : i \in 1..Len(q)})

\* torch.full((n, ), v)
Full(n, v) == [i \in 1..n |-> v]

\* The input of a decode as the caller passes it: padded to the longest
\* context, one row per batch entry ...
PaddedInput(ctx, pad) ==
    [b \in 1..Len(ctx) |->
        [t \in 1..TensorMax(ctx) |->
            IF t <= ctx[b] THEN InputToken(b, t) ELSE pad]]

RECURSIVE PackedRow(_, _)
PackedRow(ctx, b) ==
    IF b > Len(ctx) THEN <<>>
    ELSE [t \in 1..ctx[b] |-> InputToken(b, t)] \o PackedRow(ctx, b + 1)

\* ... or packed (remove_input_padding): one row, the sequences one after
\* the other.
PackedInput(ctx) == <<PackedRow(ctx, 1)>>

\* torch.split(row, lengths, dim=1): the pieces of a row.
RECURSIVE Split(_, _)
Split(row, lengths) ==
    IF lengths = <<>> THEN <<>>
    ELSE <<SubSeq(row, 1, Head(lengths))>>
            \o Split(SubSeq(row, Head(lengths) + 1, Len(row)), Tail(lengths))

\* torch.nested.to_padded_tensor(nested_tensor(pieces), pad): every piece
\* padded to the longest one.
ToPaddedTensor(pieces, pad) ==
    LET width == Max({Len(pieces[b]) : b \in 1..Len(pieces)})
    IN  [b \in 1..Len(pieces) |-> pieces[b] \o Full(width - Len(pieces[b]), pad)]

\* padded_input_ids of __setup_decoder.
PaddedInputIds(ids, ctx, pad) ==
    IF Len(ids) # Len(ctx)
    THEN ToPaddedTensor(Split(ids[1], ctx), pad)
    ELSE ids

\* _tile_beam_width: unsqueeze(1), tile [1, num_beams, ...], reshape to
\* [n * num_beams, ...]: every row num_beams times, one after the other.
TileBeamWidth_interleaved(tensor, num_beams) ==
    [i \in 1..(Len(tensor) * num_beams) |-> tensor[((i - 1) % Len(tensor)) + 1]]

TileBeamWidth(tensor, num_beams) ==
    [i \in 1..(Len(tensor) * num_beams) |-> tensor[((i - 1) \div num_beams) + 1]]

\* reshape of [n * num_beams, ...] to [n, num_beams, ...]
ReshapeBeams(tensor, n, num_beams) ==
    [b \in 1..n |-> [k \in 1..num_beams |-> tensor[(b - 1) * num_beams + k]]]

\* self.output_ids of __setup_decoder: the padded input, tiled to the
\* beams, followed by max_seq_length - max_context_length end ids.  (With
\* one beam the tensor is [batch, max_seq_length]; it is kept here as
\* [batch][1][max_seq_length].)
SetupOutputIds(ids, ctx, sc, seq_length) ==
    LET n == Len(ctx)
        mcl == TensorMax(ctx)
        padded == PaddedInputIds(ids, ctx, sc.pad_id)
        tiled == IF sc.num_beams > 1
                 THEN ReshapeBeams(TileBeamWidth(padded, sc.num_beams), n,
                                   sc.num_beams)
                 ELSE [b \in 1..n |-> <<padded[b]>>]
    IN  [b \in 1..n |->
            [k \in 1..sc.num_beams |->
                tiled[b][k] \o Full(seq_length - mcl, sc.end_id)]]

BeamHypsNames ==
    {"output_ids_tgt", "sequence_lengths_tgt", "cum_log_probs",
     "normed_scores", "log_probs", "min_normed_scores", "num_beams",
     "is_done"}

\* The eight beam_hyps_* tensors of __setup_decoder.
SetupBeamHyps(sc) ==
    [h \in BeamHypsNames |-> IF sc.use_beam_hyps THEN "fresh" ELSE "None"]

(***************************************************************************)
(* finalize_decoder on the last rank: gather_tree gets the live beam       *)
(* hypotheses, or deep copies of them when use_beam_hyps and in_progress;  *)
(* it writes to the beam hypotheses it is given.                           *)
(***************************************************************************)
BeamHypsArgs_live(sc, in_progress) == "live"

BeamHypsArgs(sc, in_progress) ==
    IF sc.use_beam_hyps /\ in_progress THEN "copies" ELSE "live"

\* "self.gather_tree modifies these args."
GatherTreeWrites(hyps) ==
    [h \in DOMAIN hyps |-> IF hyps[h] = "None" THEN "None" ELSE "gathered"]

\* The live beam hypotheses after a finalize_decoder call.
FinalizeBeamHyps(hyps, sc, in_progress) ==
    IF BeamHypsArgs(sc, in_progress) = "live"
    THEN GatherTreeWrites(hyps) ELSE hyps

\* The entry of the history for a finalize_decoder call.
Gather(s, site, in_progress, hyps, sc) ==
    [step |-> s, site |-> site, in_progress |-> in_progress,
     before |-> hyps, after |-> FinalizeBeamHyps(hyps, sc, in_progress)]

(***************************************************************************)
(* handle_per_step and the buffers.                                        *)
(***************************************************************************)
\* "if step == 0: self.sequence_length_buffer = context_lengths.detach()
\* .clone()", context_lengths tiled to the beams before.
SequenceLengthReset_never(s, ctx, sc, old) == old

SequenceLengthReset(s, ctx, sc, old) ==
    IF s = 0
    THEN IF sc.num_beams > 1 THEN TileBeamWidth(ctx, sc.num_beams) ELSE ctx
    ELSE old

\* dynamic_decoder.forward on the buffers: the entries in grow get the
\* sampled token appended at their sequence length, which goes up by one;
\* the other entries are finished.  Its should_stop: every entry is
\* finished, or the step is the last one of the sequence limit.
DecoderForward(s, grow, ids, lengths, done, hyps, sc) ==
    LET at(b, k) == (b - 1) * sc.num_beams + k
        grows(i) == i \in grow /\ i <= Len(lengths)
        done1 == [i \in 1..Len(done) |-> done[i] \/ i \notin grow]
    IN  [output_ids |->
            [b \in 1..Len(ids) |->
                [k \in 1..sc.num_beams |->
                    IF grows(at(b, k))
                    THEN [ids[b][k] EXCEPT ![lengths[at(b, k)] + 1] =
                                               SampledToken(s)]
                    ELSE ids[b][k]]],
         sequence_length |->
            [i \in 1..Len(lengths) |->
                IF grows(i) THEN lengths[i] + 1 ELSE lengths[i]],
         finished |-> done1,
         beam_hyps |->
            [h \in DOMAIN hyps |->
                IF hyps[h] = "None" THEN "None" ELSE "decoded"],
         should_stop |->
            \/ \A i \in 1..Len(done1) : done1[i]
            \/ s + max_context_length + 1 = max_seq_length]

NoConfig == [end_id |-> 0, pad_id |-> 0, num_beams |-> 1,
             use_beam_hyps |-> FALSE, streaming |-> FALSE,
             processor |-> FALSE, criteria |-> FALSE]

\* The buffers of a session before its first decode.
TensorIdle ==
    /\ scfg = NoConfig
    /\ input_ids = <<>>
    /\ host_context_lengths = <<>>
    /\ output_ids = <<>>
    /\ sequence_length_buffer = <<>>
    /\ finished = <<>>
    /\ beam_hyps = SetupBeamHyps(NoConfig)
    /\ gathers = <<>>
    /\ dec_pc = "idle"
    /\ dec_step = 0
    /\ prev_sequence_length = <<>>

\* The context lengths a decode can come with after setup(batch_size,
\* max_context_length, ...): decode asserts their number and their maximum.
ContextLengthsOf(n, mcl) ==
    {ctx \in [1..n -> 1..mcl] : \E b \in 1..n : ctx[b] = mcl}

\* decode up to the first step: __setup_decoder on the input.
DecodeBuffers(ctx, packed, sc) ==
    /\ dec_pc = "idle"
    /\ buffer_allocated
    /\ ctx \in ContextLengthsOf(batch_size, max_context_length)
    /\ sc.num_beams = beam_width
    /\ scfg' = sc
    /\ host_context_lengths' = ctx
    /\ input_ids' = IF packed THEN PackedInput(ctx)
                    ELSE PaddedInput(ctx, sc.pad_id)
    /\ output_ids' = SetupOutputIds(input_ids', ctx, sc, max_seq_length)
    /\ finished' = Full(Len(ctx) * sc.num_beams, FALSE)
    /\ beam_hyps' = SetupBeamHyps(sc)
    /\ gathers' = <<>>
    /\ dec_pc' = "decoding"
    /\ dec_step' = 0
    /\ prev_sequence_length' = sequence_length_buffer
    /\ UNCHANGED sequence_length_buffer
    /\ UNCHANGED <<lifeVars, nameVars, kvVars, loraVars, pipeVars, restVars>>

\* One step of the decode on the buffers: handle_per_step(dec_step), then
\* what the loop of decode_regular or decode_stream does with its result.
\* grow is what the decoder does to the entries, crit the answer of the
\* stopping criterion when it is asked.
StepBuffers(grow, crit) ==
    /\ dec_pc = "decoding"
    /\ dec_step < max_new_tokens
    /\ grow \subseteq {i \in 1..Len(finished) : ~finished[i]}
    /\ LET s == dec_step
           lengths == SequenceLengthReset(s, host_context_lengths, scfg,
                                          sequence_length_buffer)
           g1 == IF scfg.processor
                 THEN <<Gather(s, "logits_processor", TRUE, beam_hyps, scfg)>>
                 ELSE <<>>
           hyps1 == IF scfg.processor THEN g1[1].after ELSE beam_hyps
           fwd == DecoderForward(s, grow, output_ids, lengths, finished,
                                 hyps1, scfg)
           asked == scfg.criteria /\ ~fwd.should_stop
           g2 == IF asked
                 THEN <<Gather(s, "stopping_criteria", TRUE, fwd.beam_hyps,
                               scfg)>>
                 ELSE <<>>
           hyps2 == IF asked THEN g2[1].after ELSE fwd.beam_hyps
           stop == IF asked THEN crit ELSE fwd.should_stop
           g3 == IF scfg.streaming
                 THEN <<Gather(s, "decode_stream", TRUE, hyps2, scfg)>>
                 ELSE <<>>
           hyps3 == IF scfg.streaming THEN g3[1].after ELSE hyps2
           ends == stop \/ s + 1 = max_new_tokens
           final == ends /\ (~scfg.streaming \/ ~stop)
           g4 == IF final
                 THEN <<Gather(s, "final", FALSE, hyps3, scfg)>> ELSE <<>>
       IN  /\ crit => asked
           /\ prev_sequence_length' = lengths
           /\ output_ids' = fwd.output_ids
           /\ sequence_length_buffer' = fwd.sequence_length
           /\ finished' = fwd.finished
           /\ beam_hyps' = IF final THEN g4[1].after ELSE hyps3
           /\ gathers' = gathers \o g1 \o g2 \o g3 \o g4
           /\ dec_step' = s + 1
           /\ dec_pc' = IF ends THEN "done" ELSE "decoding"
    /\ UNCHANGED <<scfg, input_ids, host_context_lengths>>
    /\ UNCHANGED <<lifeVars, nameVars, kvVars, loraVars, pipeVars, restVars>>

(***************************************************************************)
(* The paged KV cache.  The manager (KVCacheManager, GenerationSequence)    *)
(* is the one of the specification: a sequence is added with a token count *)
(* and ceil(count / tokens_per_block) blocks; step(should_free) releases   *)
(* the blocks of a sequence or adds a token to it, with one more block     *)
(* when the token starts a new block.  The calls are those of decode and   *)
(* handle_per_step.                                                        *)
(***************************************************************************)
TokensPerBlock == {1, 2}

KvContextLengths == {1, 2, 3}

NoManager == <<>>

Ceil(a, b) == (a + b - 1) \div b

\* KVCacheManager.add_sequence(sequence, context_len)
AddSequence(mgr, context_len, tpb) ==
    Append(mgr, [tokens |-> context_len, blocks |-> Ceil(context_len, tpb)])

\* KVCacheManager.step(should_free)
ManagerStep(mgr, should_free, tpb) ==
    [b \in DOMAIN mgr |->
        IF should_free[b] THEN [mgr[b] EXCEPT !.blocks = 0]
        ELSE [tokens |-> mgr[b].tokens + 1,
              blocks |-> IF mgr[b].tokens % tpb = 0 THEN mgr[b].blocks + 1
                         ELSE mgr[b].blocks]]

\* An entry of the history: the call and the manager's sequences after it.
KvCall(op, s, arg, mgr) == [op |-> op, step |-> s, arg |-> arg, seqs |-> mgr]

\* decode: "self.kv_cache_manager.add_sequence(generation_sequence,
\* max_context_length)" for bi in range(batch_size).
RECURSIVE AddSequences(_, _, _, _)
AddSequences(mgr, bi, n, length) ==
    IF bi >= n THEN mgr
    ELSE AddSequences(AddSequence(mgr, length, tokens_per_block), bi + 1, n,
                      length)

KvIdle ==
    /\ tokens_per_block = 1
    /\ kv_cache_manager = NoManager
    /\ kv_context_lengths = <<>>
    /\ kv_pc = "idle"
    /\ kv_step = 0
    /\ kv_log = <<>>

\* decode up to the first step: the manager and its sequences.
KvDecode(ctx) ==
    /\ kv_pc \in {"idle", "done", "raised"}
    /\ buffer_allocated
    /\ ctx \in ContextLengthsOf(batch_size, max_context_length)
    /\ kv_context_lengths' = ctx
    /\ kv_cache_manager' =
            IF cfg.paged_kv_cache
            THEN AddSequences(NoManager, 0, batch_size, TensorMax(ctx))
            ELSE kv_cache_manager
    /\ kv_log' = <<>>
    /\ kv_step' = 0
    /\ kv_pc' = IF max_new_tokens > 0 THEN "decoding" ELSE "done"
    /\ UNCHANGED <<tokens_per_block, tensorVars>>
    /\ UNCHANGED <<lifeVars, nameVars, loraVars, pipeVars, restVars>>

\* The step frees the blocks of every sequence: it is the last step of the
\* decode or the one at which should_stop is set.
FreesBlocks_last(s, stop) == s >= max_new_tokens - 1

FreesBlocks(s, stop) == s >= max_new_tokens - 1 \/ stop

\* handle_per_step(kv_step) and the loop around it; stop is the step's
\* should_stop.
KvHandlePerStep(ok, stop) ==
    /\ kv_pc = "decoding"
    /\ LET s == kv_step
           all(v) == [b \in 1..batch_size |-> v]
           m0 == kv_cache_manager
           \* step 0: get_pointer_arrays(1) for the context phase
           l0 == IF s = 0 THEN <<KvCall("get_pointer_arrays", s, 1, m0)>>
                 ELSE <<>>
           \* the engine launch of the step; ok is whether it succeeded
           launch == <<KvCall("launch", s, ok, m0)>>
           \* the next step is prepared: step([False] * batch_size), then
           \* get_pointer_arrays(beam_width)
           m1 == IF PreparesNext(s)
                 THEN ManagerStep(m0, all(FALSE), tokens_per_block) ELSE m0
           l1 == IF PreparesNext(s)
                 THEN <<KvCall("step", s, FALSE, m1),
                        KvCall("get_pointer_arrays", s, beam_width, m1)>>
                 ELSE <<>>
           \* the decoder's forward, which gives should_stop
           forward == <<KvCall("decoder", s, stop, m1)>>
           frees == FreesBlocks(s, stop)
           m2 == IF frees THEN ManagerStep(m1, all(TRUE), tokens_per_block)
                 ELSE m1
           l2 == IF frees THEN <<KvCall("step", s, TRUE, m2)>> ELSE <<>>
       IN  IF ~ok
           THEN /\ kv_log' = IF cfg.paged_kv_cache
                             THEN kv_log \o l0 \o launch ELSE kv_log
                /\ kv_pc' = "raised"
                /\ UNCHANGED <<kv_cache_manager, kv_step>>
           ELSE /\ IF cfg.paged_kv_cache
                   THEN /\ kv_cache_manager' = m2
                        /\ kv_log' = kv_log \o l0 \o launch \o l1
                                            \o forward \o l2
                   ELSE UNCHANGED <<kv_cache_manager, kv_log>>
                /\ kv_step' = kv_step + 1
                /\ kv_pc' = IF stop \/ kv_step + 1 >= max_new_tokens
                            THEN "done" ELSE "decoding"
    /\ UNCHANGED <<tokens_per_block, kv_context_lengths, tensorVars>>
    /\ UNCHANGED <<lifeVars, nameVars, loraVars, pipeVars, restVars>>

(***************************************************************************)
(* setup(): the LoRA ranks and weight pointers of each batch entry.  The   *)
(* tables of the LoraManager are those of a manager that knows the uids    *)
(* "a" and "b".                                                            *)
(***************************************************************************)
\* lora_uids[b] is None.
NoUid == "<None>"

LoraUids == {"a", "b", "-1", NoUid}

LoraModules == {"attn_q", "attn_v"}

LoraConfig ==
    [DefaultConfig EXCEPT !.lora_plugin = TRUE,
                          !.lora_target_modules = LoraModules]

\* A number for each (uid, layer, module), different for different triples.
LoraKey(uid, layer, module) ==
    (IF uid = "a" THEN 1 ELSE IF uid = "b" THEN 2 ELSE 3) * 16
        + layer * 4 + (IF module = "attn_q" THEN 1 ELSE 2)

\* LoraManager.uid_to_low_ranks(uid)[layer][module]
UidToLowRanks(uid, layer, module) == LoraKey(uid, layer, module)

\* LoraManager.lora_weights_pointers_list[layer][uid][module]
LoraWeightsPointersList(layer, uid, module) ==
    <<1000 + 2 * LoraKey(uid, layer, module),
      1001 + 2 * LoraKey(uid, layer, module)>>

\* "if lora_uid is not None and lora_uid != '-1'"
LoraUidActive_notNone(lora_uid) == lora_uid # NoUid

LoraUidActive(lora_uid) == lora_uid # NoUid /\ lora_uid # "-1"

LoraRanksName(lora_module, layer_idx) ==
    lora_module \o "_lora_ranks_" \o ToString(layer_idx)

LoraPointersName(lora_module, layer_idx) ==
    lora_module \o "_lora_weights_pointers_" \o ToString(layer_idx)

\* The entries the loops over the local layers, the target modules and the
\* batch write: zeros, then the ranks and the pointers of the active uids.
LoraBuffers(bs, uids) ==
    LET rank(l, md) ==
            [b \in 1..bs |->
                IF LoraUidActive(uids[b]) THEN UidToLowRanks(uids[b], l, md)
                ELSE 0]
        pointers(l, md) ==
            [b \in 1..bs |->
                IF LoraUidActive(uids[b])
                THEN <<LoraWeightsPointersList(l, uids[b], md)[1],
                       LoraWeightsPointersList(l, uids[b], md)[2]>>
                ELSE <<0, 0>>]
        entries == {<<LoraRanksName(md, l), rank(l, md)>> :
                        l \in LayerRange, md \in cfg.lora_target_modules}
                   \cup {<<LoraPointersName(md, l), pointers(l, md)>> :
                        l \in LayerRange, md \in cfg.lora_target_modules}
    IN  [name \in {e[1] : e \in entries} |->
            (CHOOSE e \in entries : e[1] = name)[2]]

NoBuffer == <<>>

LoraIdle ==
    /\ session_lora_manager = FALSE
    /\ lora_uids = <<>>
    /\ lora_buffer = NoBuffer

\* setup(bs, mcl, MaxNewTokens, lora_manager, lora_uids); uids is <<>> when
\* the caller passes no lora_uids.
SetupLora(bs, mcl, manager, uids) ==
    /\ pc = "idle"
    /\ ctor = "ok"
    /\ uids = <<>> \/ Len(uids) = bs
    /\ LET raises == cfg.lora_plugin /\ manager /\ uids = <<>>
       IN  /\ batch_size' = bs
           /\ max_context_length' = mcl
           /\ max_new_tokens' = MaxNewTokens
           /\ max_seq_length' = mcl + MaxNewTokens
           /\ beam_width' = 1
           /\ session_lora_manager' = manager
           /\ lora_uids' = uids
           /\ lora_buffer' = IF cfg.lora_plugin /\ manager /\ ~raises
                             THEN LoraBuffers(bs, uids) ELSE NoBuffer
           /\ buffer_allocated' = IF raises THEN buffer_allocated ELSE TRUE
           /\ result' = IF raises THEN Res("setup", "raise", "AssertionError")
                        ELSE Res("setup", "return", "none")
           /\ call' = [op |-> "setup"]
    /\ UNCHANGED <<pp_size, pp_rank, cuda_graph_mode, cur_stream, decoder,
                   cuda_graph_instances, pc, step, should_stop, entry_stream,
                   trace>>
    /\ UNCHANGED <<nameVars, tensorVars, kvVars, pipeVars, restVars>>

(***************************************************************************)
(* Pipeline parallelism: the ranks of one pipeline group (tp_size = 1, so  *)
(* pp_group = [0 .. pp_size - 1]) run the same decode, each in its own     *)
(* session.  The last rank runs the decoder; the others are to learn       *)
(* should_stop from it through self.nccl_comm.                             *)
(***************************************************************************)
PipeSizes == {1, 2, 3}

PipeRanks == 0..(pp_size - 1)

LastRank == pp_size - 1

\* self.nccl_comm.send(buffer, peer) or recv(buffer, peer)
CommCall(op, buffer, peer) == [op |-> op, buffer |-> buffer, peer |-> peer]

\* The sends of "for pg in self.mapping.pp_group" from rank pg on.
RECURSIVE SendsToGroup(_, _)
SendsToGroup(r, pg) ==
    IF pg > LastRank THEN <<>>
    ELSE (IF pg = r THEN <<>>
          ELSE <<CommCall("send", "should_stop", pg),
                 CommCall("send", "cache_indir", pg),
                 CommCall("send", "sequence_length", pg)>>)
         \o SendsToGroup(r, pg + 1)

\* pp_communicate_new_tokens on rank r: the calls it makes, in order.
PpCommunicateNewTokens(r) ==
    IF r = LastRank
    THEN SendsToGroup(r, 0) \o <<CommCall("send", "new_tokens", 0)>>
    ELSE <<CommCall("recv", "should_stop", LastRank),
           CommCall("recv", "cache_indir", LastRank),
           CommCall("recv", "sequence_length", LastRank)>>
         \o (IF r = 0 THEN <<CommCall("recv", "new_tokens", LastRank)>>
             ELSE <<>>)

\* pp_communicate_final_output_ids on rank r.
PpCommunicateFinalOutputIds(r) ==
    IF r = LastRank THEN <<CommCall("send", "final_output_ids", 0)>>
    ELSE IF r = 0 THEN <<CommCall("recv", "final_output_ids", LastRank)>>
    ELSE <<>>

\* Making these calls in a session: __init__ creates no self.nccl_comm (the
\* lines that did are comments), so the first call raises AttributeError
\* where it is attempted.
Communicate(calls) ==
    IF calls = <<>> THEN [attempted |-> <<>>, raised |-> "none"]
    ELSE [attempted |-> <<Head(calls)>>, raised |-> "AttributeError"]

\* finalize_decoder on rank r: gather_tree on the last rank, then the
\* exchange of the final output ids "if self.mapping.has_pp()".
PipeFinalize(r, wanted) ==
    IF wanted /\ pp_size > 1 THEN Communicate(PpCommunicateFinalOutputIds(r))
    ELSE Communicate(<<>>)

RankIdle ==
    [pc |-> "idle", step |-> 0, should_stop |-> "None", decoded |-> 0,
     comm |-> <<>>, raised |-> "none"]

PipeIdle ==
    /\ pipe = <<>>
    /\ pipe_call = NoCall

\* Every rank of the group calls decode with the same arguments.
PipeDecode(streaming, criteria, processor) ==
    /\ \A r \in PipeRanks : pipe[r].pc \in {"idle", "done", "raised"}
    /\ buffer_allocated
    /\ pipe_call' = [op |-> "decode", streaming |-> streaming,
                     criteria |-> criteria, processor |-> processor]
    /\ pipe' = [r \in PipeRanks |->
                    [RankIdle EXCEPT !.pc = IF max_new_tokens > 0 THEN "loop"
                                            ELSE "done"]]
    /\ UNCHANGED <<lifeVars, nameVars, tensorVars, kvVars, loraVars,
                 restVars>>

\* Rank r runs handle_per_step(step) and what its loop does after it:
\* decode_regular finalizes and returns on should_stop or after the last
\* step, decode_stream finalizes in progress after every step.
PipeStep(r, verdict, crit) ==
    /\ r \in DOMAIN pipe
    /\ pipe[r].pc = "loop"
    /\ LET me == pipe[r]
           last == r = LastRank
           \* the finalize_decoder made for the logits processor
           pre == PipeFinalize(r, last /\ pipe_call.processor)
           decodes == last /\ pre.raised = "none"
           asked == decodes /\ pipe_call.criteria /\ ~verdict
           \* the finalize_decoder made for the stopping criterion
           post == PipeFinalize(r, asked)
           judged == IF ~decodes \/ post.raised # "none" THEN "None"
                     ELSE IF (IF asked THEN crit ELSE verdict) THEN "True"
                     ELSE "False"
           tokens == IF pre.raised = "none" /\ post.raised = "none"
                        /\ pp_size > 1
                     THEN Communicate(PpCommunicateNewTokens(r))
                     ELSE Communicate(<<>>)
           stepped == pre.raised = "none" /\ post.raised = "none"
                        /\ tokens.raised = "none"
           stops == stepped /\ judged = "True"
           ends == stepped /\ (stops \/ me.step + 1 >= max_new_tokens)
           \* finalize_decoder of the loop: of every step when streaming,
           \* before the return otherwise
           fin == PipeFinalize(r, stepped /\ (pipe_call.streaming \/ ends))
           raised == IF pre.raised # "none" THEN pre.raised
                     ELSE IF post.raised # "none" THEN post.raised
                     ELSE IF tokens.raised # "none" THEN tokens.raised
                     ELSE fin.raised
       IN  pipe' = [pipe EXCEPT ![r] =
                [pc |-> IF raised # "none" THEN "raised"
                        ELSE IF ends THEN "done" ELSE "loop",
                 step |-> IF stepped THEN me.step + 1 ELSE me.step,
                 should_stop |-> judged,
                 decoded |-> me.decoded + (IF decodes THEN 1 ELSE 0),
                 comm |-> me.comm \o pre.attempted \o post.attempted
                            \o tokens.attempted \o fin.attempted,
                 raised |-> raised]]
    /\ UNCHANGED pipe_call
    /\ UNCHANGED <<lifeVars, nameVars, tensorVars, kvVars, loraVars,
                 restVars>>

(***************************************************************************)
(* The execution contexts of _Runtime: __prepare creates them from the     *)
(* engine's optimization profiles, handle_per_step launches one of them    *)
(* at each step and binds the tensors of the following step on another.    *)
(* A context is an object; two attributes may name the same object.        *)
(***************************************************************************)
ProfileCounts == 0..3

NoRuntime ==
    [status |-> "none", context_0 |-> "<none>", context_1 |-> "<none>",
     ctx_context |-> "<none>", profile |-> <<>>]

\* One optimization profile: two contexts on profile 0, and ctx_context is
\* the object context_1.
OneProfileContexts_third ==
    [status |-> "ok", context_0 |-> "context#1", context_1 |-> "context#2",
     ctx_context |-> "context#3",
     profile |-> [c \in {"context#1", "context#2", "context#3"} |-> 0]]

OneProfileContexts ==
    [status |-> "ok", context_0 |-> "context#1", context_1 |-> "context#2",
     ctx_context |-> "context#2",
     profile |-> [c \in {"context#1", "context#2"} |-> 0]]

\* Two optimization profiles: ctx_context on profile 0, then context_0 and
\* context_1 on profile 1.
TwoProfileContexts ==
    [status |-> "ok", ctx_context |-> "context#1", context_0 |-> "context#2",
     context_1 |-> "context#3",
     profile |-> [c \in {"context#1", "context#2", "context#3"} |->
                    IF c = "context#1" THEN 0 ELSE 1]]

\* _Runtime.__prepare for an engine of n optimization profiles.
Prepare(n) ==
    IF n = 1 THEN OneProfileContexts
    ELSE IF n = 2 THEN TwoProfileContexts
    ELSE [NoRuntime EXCEPT !.status = "AssertionError"]

\* The attribute of the runtime whose context step s launches.
StepContext_parity(s) == IF s % 2 = 1 THEN "context_0" ELSE "context_1"

StepContext(s) ==
    IF s = 0 THEN "ctx_context"
    ELSE IF s % 2 = 1 THEN "context_0" ELSE "context_1"

\* The attribute whose context step s binds the next step's tensors on.
NextContext_same(s) == IF s % 2 = 1 THEN "context_0" ELSE "context_1"

NextContext(s) == IF s % 2 = 1 THEN "context_1" ELSE "context_0"

\* The cache indirection buffers of a decode are the two entries of the
\* list cache_indirections; a step reads one as the source of the decoder
\* and lets the decoder write the other, and binds the one it wrote as the
\* cache_indirection input of the next step.
this_src_cache_indirection(s) == IF s % 2 = 1 THEN 1 ELSE 0

this_tgt_cache_indirection_src(s) == IF s % 2 = 1 THEN 1 ELSE 0

this_tgt_cache_indirection(s) == IF s % 2 = 1 THEN 0 ELSE 1

next_src_cache_indirection(s) == IF s % 2 = 1 THEN 0 ELSE 1

NoInstances == [i \in 0..1 |-> "<none>"]

\* Step 0 of a decode in graph mode drops the graph instances.
InstancesAtStep_kept(s, graphs) == graphs

InstancesAtStep(s, graphs) ==
    IF s = 0 /\ cuda_graph_mode THEN NoInstances ELSE graphs

\* The instance the launch of step s runs, and the one its capture fills.
LaunchInstance(s) == s % 2

CaptureInstance_same(s) == s % 2

CaptureInstance(s) == (s + 1) % 2

\* graphs holds, for each graph instance, the context whose execute it
\* captured; captured the step of this decode that captured it (Unset for an
\* empty instance and for one an earlier decode left); graph_bound the
\* cache indirection buffer bound on that context at the capture; bound the
\* cache indirection buffer bound on each context.
CtxIdleRun ==
    [pc |-> "idle", step |-> 0, graphs |-> NoInstances,
     captured |-> [i \in 0..1 |-> Unset],
     graph_bound |-> [i \in 0..1 |-> Unset],
     bound |-> [c \in {"context#1", "context#2", "context#3"} |-> Unset]]

CtxIdle ==
    /\ runtime = NoRuntime
    /\ ctx_run = CtxIdleRun
    /\ ctx_log = <<>>

CtxEv(op, s, attr, object, graph, src, tgt) ==
    [op |-> op, step |-> s, attr |-> attr, context |-> object, graph |-> graph,
     src |-> src, tgt |-> tgt]

\* _Runtime.__init__ on an engine of n optimization profiles.
RuntimePrepare(n) ==
    /\ runtime.status = "none"
    /\ runtime' = Prepare(n)
    /\ UNCHANGED <<ctx_run, ctx_log>>
    /\ UNCHANGED <<lifeVars, nameVars, tensorVars, kvVars, loraVars, pipeVars,
                   bufVars, penVars, wordVars, runVars, extraVars>>

\* decode enters its loop; the graph instances of the runtime outlive the
\* decode that captured them.
CtxDecode ==
    /\ runtime.status = "ok"
    /\ ctx_run.pc \in {"idle", "done", "raised"}
    /\ ctx_run' = [ctx_run EXCEPT !.pc = "loop", !.step = 0,
                                  !.captured = [i \in 0..1 |-> Unset]]
    /\ ctx_log' = <<>>
    /\ UNCHANGED runtime
    /\ UNCHANGED <<lifeVars, nameVars, tensorVars, kvVars, loraVars, pipeVars,
                   bufVars, penVars, wordVars, runVars, extraVars>>

\* One handle_per_step: at step 0 the context tensors are bound on
\* ctx_context and, in graph mode, the graph instances dropped; the step is
\* launched, as the graph instance of its parity if there is one; unless the
\* step is the last the next step's tensors are bound on next_context and,
\* in graph mode, its launch captured into the instance of the next parity;
\* then the decoder reads the source cache indirection and writes the
\* target.
CtxHandlePerStep(ok, stop) ==
    /\ ctx_run.pc = "loop"
    /\ LET s == ctx_run.step
           context == runtime[StepContext(s)]
           next_context == runtime[NextContext(s)]
           graphs0 == InstancesAtStep(s, ctx_run.graphs)
           captured0 == IF s = 0 /\ cuda_graph_mode
                        THEN [i \in 0..1 |-> Unset] ELSE ctx_run.captured
           bound0 == IF s = 0
                     THEN [ctx_run.bound EXCEPT
                             ![context] = this_src_cache_indirection(s)]
                     ELSE ctx_run.bound
           by_graph == cuda_graph_mode /\ graphs0[LaunchInstance(s)] # "<none>"
           ctx_bind == IF s = 0
                       THEN <<CtxEv("bind", s, StepContext(s), context, FALSE,
                                    this_src_cache_indirection(s), Unset)>>
                       ELSE <<>>
           launch == IF by_graph
                     THEN CtxEv("launch", s, "graph",
                                graphs0[LaunchInstance(s)], TRUE,
                                ctx_run.graph_bound[LaunchInstance(s)], Unset)
                     ELSE CtxEv("launch", s, StepContext(s), context, FALSE,
                                bound0[context], Unset)
           launched == ctx_log \o ctx_bind \o <<launch>>
           bound1 == [bound0 EXCEPT
                        ![next_context] = next_src_cache_indirection(s)]
           graphs1 == IF cuda_graph_mode
                      THEN [graphs0 EXCEPT
                              ![CaptureInstance(s)] = next_context]
                      ELSE graphs0
           captured1 == IF cuda_graph_mode
                        THEN [captured0 EXCEPT ![CaptureInstance(s)] = s]
                        ELSE captured0
           graph_bound1 == IF cuda_graph_mode
                           THEN [ctx_run.graph_bound EXCEPT
                                   ![CaptureInstance(s)] =
                                       bound1[next_context]]
                           ELSE ctx_run.graph_bound
           decoder_ev == CtxEv("decoder", s, "dynamic_decoder", "<none>",
                               FALSE, this_src_cache_indirection(s),
                               this_tgt_cache_indirection(s))
       IN  IF ~(by_graph \/ ok)
           THEN /\ ctx_log' = launched
                /\ ctx_run' = [ctx_run EXCEPT !.pc = "raised",
                                              !.graphs = graphs0,
                                              !.captured = captured0,
                                              !.bound = bound0]
           ELSE IF PreparesNext(s)
           THEN /\ ctx_log' = launched \o
                       <<CtxEv("next", s, NextContext(s), next_context, FALSE,
                               next_src_cache_indirection(s), Unset),
                         decoder_ev>>
                /\ ctx_run' = [pc |-> IF stop THEN "done" ELSE "loop",
                               step |-> IF stop THEN s ELSE s + 1,
                               graphs |-> graphs1,
                               captured |-> captured1,
                               graph_bound |-> graph_bound1,
                               bound |-> bound1]
           ELSE /\ ctx_log' = launched \o <<decoder_ev>>
                /\ ctx_run' = [ctx_run EXCEPT !.pc = "done",
                                              !.graphs = graphs0,
                                              !.captured = captured0,
                                              !.bound = bound0]
    /\ UNCHANGED runtime
    /\ UNCHANGED <<lifeVars, nameVars, tensorVars, kvVars, loraVars, pipeVars,
                   bufVars, penVars, wordVars, runVars, extraVars>>

(***************************************************************************)
(* The buffers of setup: the attention window it stores, the per-layer     *)
(* host window sizes and self.buffer, of which the model keeps each        *)
(* tensor's shape and dtype, and what the first step of a decode does to   *)
(* self.buffer.                                                            *)
(***************************************************************************)
\* The max_attention_window_size argument: None, an int, a torch.Tensor
\* (its entries) or anything else.
WindowNone == [kind |-> "None", values |-> <<>>]

WindowInt(v) == [kind |-> "int", values |-> <<v>>]

WindowArgs(msl) ==
    {WindowNone, [kind |-> "other", values |-> <<>>]}
    \cup {WindowInt(v) : v \in {msl, msl + 1}}
    \cup {[kind |-> "Tensor", values |-> t] :
            t \in {<<msl + 1>>, <<1, msl + 1>>}}

Min(a, b) == IF a <= b THEN a ELSE b

\* What the window branch of setup raises.
WindowRaise_total(w) ==
    IF w.kind = "other" THEN "AssertionError"
    ELSE IF w.kind = "Tensor" /\ Len(w.values) # cfg.num_layers
    THEN "AssertionError"
    ELSE "none"

WindowRaise(w) ==
    IF w.kind = "other" THEN "AssertionError"
    ELSE IF w.kind = "Tensor" /\ Len(w.values) # num_layers
    THEN "AssertionError"
    ELSE "none"

\* self.max_attention_window_size after the window branch; prev is the
\* attribute before the call.
MaxAttentionWindowSize_ctx(w, mcl, msl, prev) ==
    IF w.kind = "None" THEN mcl
    ELSE IF w.kind = "int" THEN Min(w.values[1], msl)
    ELSE IF w.kind = "Tensor" THEN Min(TensorMax(w.values), msl)
    ELSE prev

MaxAttentionWindowSize(w, mcl, msl, prev) ==
    IF w.kind = "None" THEN msl
    ELSE IF w.kind = "int" THEN Min(w.values[1], msl)
    ELSE IF w.kind = "Tensor" THEN Min(TensorMax(w.values), msl)
    ELSE prev

\* self.host_max_attention_window_sizes after the window branch.
HostMaxAttentionWindowSizes_unclamped(w, mcl, msl, prev) ==
    IF w.kind \in {"None", "int"}
    THEN [i \in 1..num_layers |-> MaxAttentionWindowSize(w, mcl, msl, Unset)]
    ELSE IF w.kind = "Tensor" /\ WindowRaise(w) = "none"
    THEN [i \in 1..num_layers |-> w.values[i]]
    ELSE prev

HostMaxAttentionWindowSizes(w, mcl, msl, prev) ==
    IF w.kind \in {"None", "int"}
    THEN [i \in 1..num_layers |-> MaxAttentionWindowSize(w, mcl, msl, Unset)]
    ELSE IF w.kind = "Tensor" /\ WindowRaise(w) = "none"
    THEN [i \in 1..num_layers |-> Min(w.values[i], msl)]
    ELSE prev

\* A tensor of self.buffer: its layout, the dimensions that depend on the
\* arguments of setup, and its dtype.
Tensor(layout, dims, dtype) == [layout |-> layout, dims |-> dims, dtype |-> dtype]

cache_shape(bs, bw, window) ==
    IF cfg.paged_kv_cache
    THEN [layout |-> "blocks,2,num_heads_kv,tokens_per_block,head_size",
          dims |-> <<bs * bw * Ceil(window, tokens_per_block)>>]
    ELSE [layout |-> "batch_size,2,num_heads_kv,window,head_size",
          dims |-> <<bs, window>>]

\* The tensors setup puts into self.buffer, in the order of its code: the
\* logits on the last pipeline rank, the encoder length and the cross
\* caches of an encoder-decoder model, the KV cache of each local layer,
\* the second set of caches without the attention plugin, the LoRA
\* tensors with the LoRA plugin and a manager.
Allocations(bs, mcl, bw, window, manager) ==
    LET cache == cache_shape(bs, bw, window)
        logits ==
            IF ~is_last_pp_rank THEN <<>>
            ELSE IF cfg.gather_all_token_logits
            THEN "logits" :>
                    Tensor("batch_size,max_context_length,vocab_size_padded",
                           <<bs, mcl>>, "engine")
            ELSE "logits" :>
                    Tensor("batch_size,vocab_size_padded", <<bs>>, "engine")
        cross ==
            IF ~cfg.cross_attention THEN <<>>
            ELSE ("encoder_max_input_length" :>
                    Tensor("encoder_max_input_length", <<>>, "engine"))
                 @@ [name \in PerLayer("cross_present_key_value") |->
                        Tensor("batch_size,2,num_heads_kv,encoder,head_size",
                               <<bs>>, "engine")]
        present ==
            [name \in PerLayer("present_key_value") |->
                Tensor(cache.layout, cache.dims,
                       IF cfg.paged_kv_cache THEN "self.dtype" ELSE "engine")]
        second ==
            IF cfg.gpt_attention_plugin THEN <<>>
            ELSE [name \in PerLayer("1_present_key_value") |->
                    Tensor(cache.layout, cache.dims, "engine")]
        lora ==
            IF ~(cfg.lora_plugin /\ manager) THEN <<>>
            ELSE [name \in LoraRanks |-> Tensor("batch_size", <<bs>>, "int32")]
                 @@ [name \in LoraWeightsPointers |->
                        Tensor("batch_size,2", <<bs>>, "int64")]
    IN  logits @@ cross @@ present @@ second @@ lora

\* self.buffer = {} of setup, before the allocations.
ResetBuffer_kept(prev) == prev

ResetBuffer(prev) == <<>>

\* The dictionary d after d[name] = allocated[name] for every name.
Assign(d, allocated) ==
    [name \in DOMAIN d \cup DOMAIN allocated |->
        IF name \in DOMAIN allocated THEN allocated[name] ELSE d[name]]

\* _tile_beam_width: the first dimension times the number of beams.
TileFirstDim(t, bw) == [t EXCEPT !.dims[1] = @ * bw]

\* self.buffer after step 0 of a decode: with gather_all_token_logits the
\* logits are reduced to the last token of each entry; with more than one
\* beam the KV caches (unless paged) and the logits are tiled.
BufferAfterContextStep(b, bs, bw) ==
    LET gathered ==
            IF is_last_pp_rank /\ cfg.gather_all_token_logits
            THEN [b EXCEPT !["logits"] =
                     Tensor("batch_size,vocab_size_padded", <<bs>>, @.dtype)]
            ELSE b
        caches == PerLayer("present_key_value")
                    \cup PerLayer("1_present_key_value")
                    \cup PerLayer("cross_present_key_value")
    IN  IF bw > 1
        THEN [name \in DOMAIN gathered |->
                IF name \in caches /\ ~cfg.paged_kv_cache
                THEN TileFirstDim(gathered[name], bw)
                ELSE IF name = "logits" /\ is_last_pp_rank
                THEN TileFirstDim(gathered[name], bw)
                ELSE gathered[name]]
        ELSE gathered

NoSetupCall == [op |-> "none"]

SetupCall(bs, mcl, mnt, bw, w, manager) ==
    [op |-> "setup", batch_size |-> bs, max_context_length |-> mcl,
     max_new_tokens |-> mnt, beam_width |-> bw,
     max_attention_window_size |-> w, lora_manager |-> manager]

BufIdle ==
    /\ max_attention_window_size = Unset
    /\ host_max_attention_window_sizes = <<>>
    /\ self_buffer = <<>>
    /\ setup_call = NoSetupCall
    /\ setup_buffer = <<>>
    /\ buf_ops = <<>>

(***************************************************************************)
(* The penalties of the sampling configuration in __setup_decoder.  A      *)
(* penalty is a float or a per-request float32 tensor of batch_size        *)
(* entries; the model writes 0 for 0.0, 1 for 1.0 and 2 for another value. *)
(***************************************************************************)
PenaltyFloat(v) == [kind |-> "float", values |-> <<v>>]

PenaltyTensor(v, bs) == [kind |-> "Tensor", values |-> [i \in 1..bs |-> v]]

PenaltyArgs(default, bs) ==
    {PenaltyFloat(v) : v \in {default, 2}}
    \cup {PenaltyTensor(v, bs) : v \in {default, 2}}

\* The attribute __setup_decoder stores for a penalty: the tensor itself,
\* None for the default float, the float broadcast to the batch otherwise.
StoredPenalty(p, default, bs) ==
    IF p.kind = "Tensor" THEN p
    ELSE IF p.values[1] = default THEN [kind |-> "None", values |-> <<>>]
    ELSE PenaltyTensor(p.values[1], bs)

\* assert (scfg.presence_penalty == 0.0 or scfg.repetition_penalty == 1.0):
\* what it raises.  A float compares to a bool; a tensor compares entry by
\* entry, and taking the truth value of a tensor of more than one entry, as
\* "or" and "assert" do, raises a RuntimeError.
PenaltyAssert(presence, repetition) ==
    LET Truth(p, default) ==
            IF p.kind = "Tensor" /\ Len(p.values) > 1 THEN "RuntimeError"
            ELSE IF p.values[1] = default THEN "True" ELSE "False"
        a == Truth(presence, 0)
        b == Truth(repetition, 1)
    IN  IF a = "RuntimeError" THEN "RuntimeError"
        ELSE IF a = "True" THEN "none"
        ELSE IF b = "RuntimeError" THEN "RuntimeError"
        ELSE IF b = "True" THEN "none"
        ELSE "AssertionError"

NoPenalty == [kind |-> "unset", values |-> <<>>]

PenIdle ==
    /\ presence_penalty = NoPenalty
    /\ repetition_penalty = NoPenalty

\* A regular decode of the batch of setup with the given penalties:
\* __setup_decoder stores both attributes and then asserts.
DecodePenalties(presence, repetition) ==
    /\ batch_size # Unset
    /\ DecodeLife(batch_size, max_context_length, beam_width, FALSE, FALSE,
                  FALSE, PenaltyAssert(presence, repetition) # "none")
    /\ repetition_penalty' = StoredPenalty(repetition, 1, batch_size)
    /\ presence_penalty' = StoredPenalty(presence, 0, batch_size)
    /\ UNCHANGED <<nameVars, tensorVars, kvVars, loraVars, pipeVars, ctxVars,
                   bufVars, wordVars, runVars, extraVars>>

(***************************************************************************)
(* to_word_list_format.  A string is a sequence of characters; the         *)
(* tokenizer of the model encodes "a" to one id and "b" to two, so that    *)
(* the empty word, which two commas in a row leave, encodes to no id.      *)
(***************************************************************************)
Chars == {"a", "b", ","}

Strings == UNION {[1..n -> Chars] : n \in 0..MaxChars}

\* list(csv.reader([str]))[0]: the fields of the line; an empty line has no
\* field.
RECURSIVE Fields(_)
Fields(str) ==
    IF \A i \in DOMAIN str : str[i] # "," THEN <<str>>
    ELSE LET i == CHOOSE k \in DOMAIN str :
                    str[k] = "," /\ \A j \in 1..(k - 1) : str[j] # ","
         IN  <<SubSeq(str, 1, i - 1)>> \o Fields(SubSeq(str, i + 1, Len(str)))

CsvWords(str) == IF str = <<>> THEN <<>> ELSE Fields(str)

\* tokenizer.encode(word, add_special_tokens=False).
RECURSIVE Encode(_)
Encode(word) ==
    IF word = <<>> THEN <<>>
    ELSE (IF Head(word) = "a" THEN <<1>> ELSE <<2, 3>>) \o Encode(Tail(word))

\* np.cumsum.
CumSum_lengths(lengths) == lengths

RECURSIVE CumSum(_)
CumSum(lengths) ==
    IF lengths = <<>> THEN <<>>
    ELSE LET before == CumSum(SubSeq(lengths, 1, Len(lengths) - 1))
         IN  Append(before, (IF before = <<>> THEN 0 ELSE before[Len(before)])
                            + lengths[Len(lengths)])

\* The ids and the offsets of one item of word_dict: the loop over its
\* words, which skips a word without ids.
RECURSIVE ItemIds(_)
ItemIds(words) ==
    IF words = <<>> THEN [flat_ids |-> <<>>, offsets |-> <<>>]
    ELSE LET ids == Encode(Head(words))
             rest == ItemIds(Tail(words))
         IN  IF Len(ids) = 0 THEN rest
             ELSE [flat_ids |-> ids \o rest.flat_ids,
                   offsets |-> <<Len(ids)>> \o rest.offsets]

\* to_word_list_format(dict, tokenizer): per item the row of ids padded
\* with 0 and the row of cumulative offsets padded with -1.
ToWordListFormat(dict) ==
    LET item(b) == ItemIds(CsvWords(dict[b]))
        pad_to == Max({1} \cup {Len(item(b).flat_ids) : b \in DOMAIN dict})
    IN  [b \in DOMAIN dict |->
            <<item(b).flat_ids \o Full(pad_to - Len(item(b).flat_ids), 0),
              CumSum(item(b).offsets)
                \o Full(pad_to - Len(item(b).offsets), -1)>>]

WordIdle ==
    /\ word_dict = <<>>
    /\ word_list = <<>>

\* A call of to_word_list_format on the word_dict of the caller.
CallToWordListFormat ==
    /\ word_dict # <<>>
    /\ word_list = <<>>
    /\ word_list' = ToWordListFormat(word_dict)
    /\ UNCHANGED word_dict
    /\ UNCHANGED <<lifeVars, nameVars, tensorVars, kvVars, loraVars, pipeVars,
                   ctxVars, bufVars, penVars, runVars,
                   extraVars>>

(***************************************************************************)
(* print_output of examples/run.py: what it prints and which files it      *)
(* writes for the arguments main passes on from the command line.          *)
(***************************************************************************)
\* The output of a run: a batch of output_ids with num_beams beams, the
\* three file options (given or None), and whether the runner returned
\* generation logits (an engine built with gather_all_token_logits).
PrintArgs ==
    [op : {"print_output"}, batch_size : BatchSizes, num_beams : BeamWidths,
     output_csv : BOOLEAN, output_npy : BOOLEAN, output_logits_npy : BOOLEAN,
     generation_logits : BOOLEAN]

\* What one call does: the texts it prints, the files it writes, what it
\* raises.
PrintOutput(a) ==
    [printed |-> IF ~a.output_csv /\ ~a.output_npy
                 THEN {<<b, k>> : b \in 1..a.batch_size, k \in 1..a.num_beams}
                 ELSE {},
     written |-> (IF a.output_csv THEN {"output_csv"} ELSE {})
                 \cup (IF a.output_npy THEN {"output_npy"} ELSE {})
                 \cup (IF a.generation_logits /\ a.output_logits_npy
                           /\ a.num_beams = 1
                        THEN {"output_logits_npy"} ELSE {}),
     raised |-> "none"]

RunIdle ==
    /\ run_args = [op |-> "none"]
    /\ run_out = [printed |-> {}, written |-> {}, raised |-> "none"]

\* A run of the example: the files of earlier runs stay.
CallPrintOutput(a) ==
    /\ run_args' = a
    /\ run_out' = [PrintOutput(a) EXCEPT !.written = @ \cup run_out.written]
    /\ UNCHANGED <<lifeVars, nameVars, tensorVars, kvVars, loraVars, pipeVars,
                   ctxVars, bufVars, penVars, wordVars,
                   extraVars>>

(***************************************************************************)
(* _Runtime._set_tensors: the engine's IO tensors are visited in the       *)
(* engine's order and the tensors of the given dictionary bound on the     *)
(* context.  A tensor is its shape and its address; the tensors of one     *)
(* dictionary carry the number of the dictionary in both.                  *)
(***************************************************************************)
EngineTensors == {"input_ids", "cache_indirection", "logits"}

\* engine.get_tensor_mode
TensorMode(name) == IF name = "logits" THEN "OUTPUT" ELSE "INPUT"

\* The orders an engine may declare its tensors in.
EngineOrders ==
    {e \in [1..3 -> EngineTensors] : \A i, j \in 1..3 : e[i] = e[j] => i = j}

Unbound == [shape |-> "<none>", data |-> "<none>"]

RuntimeTensor(d) == [shape |-> ToString(d), data |-> ToString(d)]

\* The dictionaries given to _set_tensors: any of the engine's names and a
\* name the engine does not declare.
TensorDicts ==
    UNION {[names -> {RuntimeTensor(d)}] :
             names \in SUBSET (EngineTensors \cup {"debug_probe"}),
             d \in 1..2}

\* No tensor has been assigned to the loop variable t.
NoTensor == "<unassigned>"

\* The loop from the i-th engine tensor on; t is the name of the tensor the
\* variable t holds.  A name that is not in the dictionary is decided on
\* the mode of t.name, the tensor of the iteration before.
RECURSIVE SetTensorsFrom(_, _, _, _, _)
SetTensorsFrom(i, engine, tensors, context, t) ==
    IF i > Len(engine) THEN [context |-> context, raised |-> "none"]
    ELSE LET name == engine[i] IN
         IF name \notin DOMAIN tensors
         THEN IF t = NoTensor
              THEN [context |-> context, raised |-> "UnboundLocalError"]
              ELSE IF TensorMode(t) = "OUTPUT"
              THEN LET zeros == [shape |-> context[name].shape,
                                 data |-> "zeros"]
                   IN  SetTensorsFrom(i + 1, engine, tensors,
                                      [context EXCEPT ![name] = zeros], name)
              ELSE SetTensorsFrom(i + 1, engine, tensors, context, t)
         ELSE LET bind == IF TensorMode(name) = "INPUT"
                          THEN tensors[name]
                          ELSE [context[name] EXCEPT
                                  !.data = tensors[name].data]
              IN  SetTensorsFrom(i + 1, engine, tensors,
                                 [context EXCEPT ![name] = bind], name)

SetTensorsOf(engine, tensors, context) ==
    SetTensorsFrom(1, engine, tensors, context, NoTensor)

SetIdle ==
    /\ engine_io = <<>>
    /\ context_io = <<>>
    /\ set_call = [op |-> "none"]

\* One call of _set_tensors on the context; what the loop bound before it
\* raised stays bound.
CallSetTensors(tensors) ==
    /\ LET out == SetTensorsOf(engine_io, tensors, context_io)
       IN  /\ context_io' = out.context
           /\ set_call' = [op |-> "_set_tensors", tensors |-> tensors,
                           before |-> context_io, raised |-> out.raised]
    /\ UNCHANGED engine_io
    /\ UNCHANGED <<lifeVars, nameVars, tensorVars, kvVars, loraVars, pipeVars,
                   ctxVars, bufVars, penVars, wordVars, runVars, ioVars>>

(***************************************************************************)
(* The tensors bound for the launches of a decode on a contiguous KV       *)
(* cache: the KV cache buffers of self.buffer bound as past_key_value_i    *)
(* and present_key_value_i, the position ids and the past lengths.  A      *)
(* buffer is named by its key in self.buffer without the layer index; the  *)
(* past of the context step outside the plugin is a fresh empty tensor.    *)
(***************************************************************************)
Arange(n) == [i \in 1..n |-> i - 1]

RECURSIVE ConcatRows(_)
ConcatRows(rows) ==
    IF rows = <<>> THEN <<>> ELSE Head(rows) \o ConcatRows(Tail(rows))

\* _prepare_context_inputs with the plugin: position_ids, as its rows.
PrepareContextInputs(context_lengths, mcl) ==
    IF cfg.remove_input_padding
    THEN <<ConcatRows([b \in 1..Len(context_lengths) |->
                          Arange(context_lengths[b])])>>
    ELSE [b \in 1..Len(context_lengths) |-> Arange(mcl)]

\* _prepare_generation_inputs with the plugin, called in step s.
PositionIdsOfStep_next(context_lengths, s) ==
    [i \in 1..Len(context_lengths) |-> context_lengths[i] + s + 1]

PositionIdsOfStep(context_lengths, s) ==
    [i \in 1..Len(context_lengths) |-> context_lengths[i] + s]

PrepareGenerationInputs(context_lengths, s) ==
    LET position_ids == PositionIdsOfStep(context_lengths, s)
    IN  IF cfg.remove_input_padding THEN <<position_ids>>
        ELSE [i \in 1..Len(position_ids) |-> <<position_ids[i]>>]

KvBinding(past, past_length, present) ==
    [past |-> past, past_length |-> past_length, present |-> present]

\* _get_context_shape_buffer: the KV cache tensors of a layer.
ContextKv ==
    IF cfg.gpt_attention_plugin
    THEN KvBinding("present_key_value", Unset, "present_key_value")
    ELSE KvBinding("<empty>", 0, "present_key_value")

\* _get_next_step_shape_buffer, called in step s for the launch of step
\* s + 1: the KV cache tensors of a layer.
NextStepKv_fixed(s, mcl) ==
    KvBinding("present_key_value", mcl + s, "1_present_key_value")

NextStepKv_swapped(s, mcl) ==
    IF s % 2 = 1
    THEN KvBinding("present_key_value", mcl + s, "1_present_key_value")
    ELSE KvBinding("1_present_key_value", mcl + s, "present_key_value")

NextStepKv(s, mcl) ==
    IF cfg.gpt_attention_plugin
    THEN KvBinding("present_key_value", Unset, "present_key_value")
    ELSE IF s % 2 = 1
    THEN KvBinding("1_present_key_value", mcl + s, "present_key_value")
    ELSE KvBinding("present_key_value", mcl + s, "1_present_key_value")

\* host_past_key_value_lengths of _get_next_step_shape_buffer.
NextPastLengths(s, mcl, n) == [i \in 1..n |-> mcl + s]

\* The tensors of a launch, as far as the model follows them.
StepTensors(n, kv, position_ids, lengths) ==
    [step |-> n, kv |-> [i \in LayerRange |-> kv],
     position_ids |-> position_ids, host_past_key_value_lengths |-> lengths]

ContextTensors(context_lengths) ==
    StepTensors(0, ContextKv,
                IF cfg.gpt_attention_plugin /\ cfg.has_position_embedding
                THEN PrepareContextInputs(context_lengths, max_context_length)
                ELSE <<>>,
                IF cfg.gpt_attention_plugin THEN context_lengths ELSE <<>>)

NextStepTensors(s, context_lengths) ==
    StepTensors(s + 1, NextStepKv(s, max_context_length),
                IF cfg.gpt_attention_plugin /\ cfg.has_position_embedding
                THEN PrepareGenerationInputs(context_lengths, s)
                ELSE <<>>,
                IF cfg.gpt_attention_plugin
                THEN NextPastLengths(s, max_context_length,
                                     batch_size * beam_width)
                ELSE <<>>)

IoIdle ==
    /\ io_run = [pc |-> "idle"]
    /\ io_log = <<>>

\* decode enters its loop with the context lengths of its batch.
IoDecode(ctx) ==
    /\ io_run.pc \in {"idle", "done"}
    /\ io_run' = [pc |-> "loop", step |-> 0, input_lengths |-> ctx,
                  context_lengths |-> ctx, next_step_tensors |-> <<>>]
    /\ io_log' = <<>>
    /\ UNCHANGED <<lifeVars, nameVars, tensorVars, kvVars, loraVars, pipeVars,
                   ctxVars, bufVars, penVars, wordVars, runVars, setVars>>

\* One handle_per_step: the launch of step 0 runs on the context tensors,
\* a later one on the tensors the step before bound; after the launch of
\* step 0 the context lengths are tiled to the beams; unless the step is
\* the last it binds the tensors of the next step.
IoHandlePerStep(stop) ==
    /\ io_run.pc = "loop"
    /\ LET s == io_run.step
           launched == IF s = 0 THEN ContextTensors(io_run.context_lengths)
                       ELSE io_run.next_step_tensors
           context_lengths == IF s = 0 /\ beam_width > 1
                              THEN TileBeamWidth(io_run.context_lengths,
                                                 beam_width)
                              ELSE io_run.context_lengths
       IN  /\ io_log' = Append(io_log, launched)
           /\ io_run' =
                IF PreparesNext(s)
                THEN [io_run EXCEPT
                        !.pc = IF stop THEN "done" ELSE "loop",
                        !.step = IF stop THEN s ELSE s + 1,
                        !.context_lengths = context_lengths,
                        !.next_step_tensors =
                            NextStepTensors(s, context_lengths)]
                ELSE [io_run EXCEPT !.pc = "done",
                                    !.context_lengths = context_lengths]
    /\ UNCHANGED <<lifeVars, nameVars, tensorVars, kvVars, loraVars, pipeVars,
                   ctxVars, bufVars, penVars, wordVars, runVars, setVars>>

RestIdle ==
    /\ CtxIdle
    /\ BufIdle
    /\ PenIdle
    /\ WordIdle
    /\ RunIdle
    /\ IoIdle
    /\ SetIdle

\* Every group but the words of to_word_list_format is idle.
RestIdleButWords ==
    /\ CtxIdle
    /\ BufIdle
    /\ PenIdle
    /\ RunIdle
    /\ IoIdle
    /\ SetIdle

\* The last two calls of the session that returned.
LastOps(ops) == IF Len(ops) > 2 THEN SubSeq(ops, Len(ops) - 1, Len(ops)) ELSE ops

\* What setup(bs, mcl, mnt, bw, max_attention_window_size = w,
\* lora_manager = manager) does to the session.
SetupState(bs, mcl, mnt, bw, w, manager) ==
    /\ pc = "idle"
    /\ batch_size' = bs
    /\ max_context_length' = mcl
    /\ max_new_tokens' = mnt
    /\ max_seq_length' = mcl + mnt
    /\ beam_width' = bw
    /\ max_attention_window_size' =
            MaxAttentionWindowSize(w, mcl, mcl + mnt, max_attention_window_size)
    /\ host_max_attention_window_sizes' =
            HostMaxAttentionWindowSizes(w, mcl, mcl + mnt,
                                        host_max_attention_window_sizes)
    /\ UNCHANGED <<cfg, tp_size, debug_mode, found, ctor, debug_tensors,
                   bound>>
    /\ UNCHANGED <<pp_size, pp_rank, cuda_graph_mode, cur_stream, decoder,
                   cuda_graph_instances, pc, step, should_stop, entry_stream,
                   call, trace>>
    /\ UNCHANGED <<tensorVars, kvVars, loraVars, pipeVars, ctxVars, penVars,
                   wordVars, runVars, extraVars>>
    /\ IF WindowRaise(w) = "none"
       THEN /\ bind_args' = [bind_args EXCEPT !.setup = "ok",
                                              !.lora_manager = manager]
            /\ buffer_allocated' = TRUE
            /\ result' = Res("setup", "return", "none")
            /\ self_buffer' =
                    Assign(ResetBuffer(self_buffer),
                           Allocations(bs, mcl, bw,
                                       max_attention_window_size', manager))
       ELSE /\ UNCHANGED <<bind_args, self_buffer, buffer_allocated>>
            /\ result' = Res("setup", "raise", WindowRaise(w))

SetupWindow(bs, mcl, mnt, bw, w, manager) ==
    /\ setup_call' = SetupCall(bs, mcl, mnt, bw, w, manager)
    /\ SetupState(bs, mcl, mnt, bw, w, manager)
    /\ setup_buffer' = IF WindowRaise(w) = "none" THEN self_buffer'
                                                 ELSE setup_buffer
    /\ buf_ops' = IF WindowRaise(w) = "none"
                  THEN LastOps(Append(buf_ops, "setup")) ELSE buf_ops

\* A decode of the batch setup was called for; the model follows one decode
\* per setup.
BufDecode ==
    /\ pc = "idle"
    /\ buffer_allocated
    /\ buf_ops # <<>>
    /\ buf_ops[Len(buf_ops)] = "setup"
    /\ self_buffer' = BufferAfterContextStep(self_buffer, batch_size, beam_width)
    /\ buf_ops' = LastOps(Append(buf_ops, "decode"))
    /\ UNCHANGED <<max_attention_window_size, host_max_attention_window_sizes,
                   setup_call, setup_buffer>>
    /\ UNCHANGED <<lifeVars, nameVars, tensorVars, kvVars, loraVars, pipeVars,
                   ctxVars, penVars, wordVars, runVars, extraVars>>

(***************************************************************************)
(* The session after its construction: __init__ makes self.stream the      *)
(* current stream; no setup has run.  In Spec the session is one of the    *)
(* default configuration on an engine with the expected names.             *)
(***************************************************************************)
LifeInit ==
    /\ \E m \in Mappings : pp_size = m[1] /\ pp_rank = m[2]
    /\ cur_stream = SessionStream
    /\ batch_size = Unset
    /\ max_context_length = Unset
    /\ max_new_tokens = Unset
    /\ beam_width = Unset
    /\ max_seq_length = Unset
    /\ buffer_allocated = FALSE
    /\ decoder = NoDecoder
    /\ cuda_graph_instances = [i \in 0..1 |-> NoGraph]
    /\ pc = "idle"
    /\ step = 0
    /\ should_stop = FALSE
    /\ entry_stream = SessionStream
    /\ call = NoCall
    /\ result = NoResult
    /\ trace = <<>>

Init ==
    /\ LifeInit
    /\ cuda_graph_mode \in BOOLEAN
    /\ cfg = DefaultConfig
    /\ tp_size = 1
    /\ debug_mode = FALSE
    /\ found = ExpectedTensorNames
    /\ ctor = "ok"
    /\ debug_tensors = {}
    /\ bind_args = NoArgs
    /\ bound = NoBound
    /\ TensorIdle
    /\ KvIdle
    /\ LoraIdle
    /\ PipeIdle
    /\ RestIdle

Next ==
    \/ \E shape \in SetupShapes, mnt \in 0..MaxNewTokens,
          window_ok \in BOOLEAN :
            Setup(shape[1], shape[2], mnt, shape[3], window_ok)
    \/ \E s \in Streams : CallerSetStream(s)
    \/ \E bs \in BatchSizes, mcl \in ContextLengths, bw \in BeamWidths,
          streaming \in BOOLEAN, criteria \in BOOLEAN, processor \in BOOLEAN,
          conflict \in BOOLEAN :
            DecodeCall(bs, mcl, bw, streaming, criteria, processor, conflict)
    \/ \E fault \in Faults(step), verdict \in BOOLEAN, crit \in BOOLEAN :
            RegularStep(fault, verdict, crit)
    \/ RegularExhausted
    \/ \E fault \in Faults(step), verdict \in BOOLEAN, crit \in BOOLEAN :
            StreamStep(fault, verdict, crit)
    \/ StreamStopReturn
    \/ StreamExhausted
    \/ StreamEnd
    \/ StreamDropped

Spec == Init /\ [][Next]_vars

(***************************************************************************)
(* Spec with the fairness of a decode that is run to its end: the loop of  *)
(* decode_regular goes on by itself, and the consumer of a streaming       *)
(* decode iterates the generator until it is exhausted or drops it.        *)
(***************************************************************************)
RegularNext ==
    \/ \E fault \in Faults(step), verdict \in BOOLEAN, crit \in BOOLEAN :
            RegularStep(fault, verdict, crit)
    \/ RegularExhausted

StreamNext ==
    \/ \E fault \in Faults(step), verdict \in BOOLEAN, crit \in BOOLEAN :
            StreamStep(fault, verdict, crit)
    \/ StreamStopReturn
    \/ StreamExhausted
    \/ StreamEnd
    \/ StreamDropped

LiveSpec == Spec /\ WF_vars(RegularNext) /\ WF_vars(StreamNext)

(***************************************************************************)
(* The construction of a session on an engine, and the dictionaries of     *)
(* tensors it binds from step to step, for every configuration.            *)
(***************************************************************************)
NamesInit ==
    /\ LifeInit
    /\ cuda_graph_mode = FALSE
    /\ cfg \in Configs
    /\ tp_size \in TpSizes
    /\ debug_mode \in BOOLEAN
    /\ found = {}
    /\ ctor = "new"
    /\ debug_tensors = {}
    /\ bind_args = NoArgs
    /\ bound = NoBound
    /\ TensorIdle
    /\ KvIdle
    /\ LoraIdle
    /\ PipeIdle
    /\ RestIdle

NamesNext ==
    \/ \E engine \in Engines : Construct(engine)
    \/ \E lora_manager \in BOOLEAN : SetupBuffers(lora_manager)
    \/ \E prompt \in BOOLEAN : BindContext(prompt)
    \/ BindNextStep

NamesSpec == NamesInit /\ [][NamesNext]_vars

(***************************************************************************)
(* The buffers of the decoder through one decode, after a setup of every   *)
(* shape, on one rank without pipeline parallelism.                        *)
(***************************************************************************)
SamplingConfigs ==
    [end_id : EndIds, pad_id : PadIds, num_beams : BeamWidths,
     use_beam_hyps : BOOLEAN, streaming : BOOLEAN, processor : BOOLEAN,
     criteria : BOOLEAN]

TensorInit ==
    /\ pp_size = 1
    /\ pp_rank = 0
    /\ cuda_graph_mode = FALSE
    /\ cur_stream = SessionStream
    /\ batch_size \in BatchSizes
    /\ max_context_length \in ContextLengths
    /\ max_new_tokens = MaxNewTokens
    /\ beam_width \in BeamWidths
    /\ max_seq_length = max_context_length + max_new_tokens
    /\ buffer_allocated = TRUE
    /\ decoder = NoDecoder
    /\ cuda_graph_instances = [i \in 0..1 |-> NoGraph]
    /\ pc = "idle"
    /\ step = 0
    /\ should_stop = FALSE
    /\ entry_stream = SessionStream
    /\ call = [op |-> "setup"]
    /\ result = Res("setup", "return", "none")
    /\ trace = <<>>
    /\ cfg = DefaultConfig
    /\ tp_size = 1
    /\ debug_mode = FALSE
    /\ found = ExpectedTensorNames
    /\ ctor = "ok"
    /\ debug_tensors = {}
    /\ bind_args = NoArgs
    /\ bound = NoBound
    /\ scfg = NoConfig
    /\ input_ids = <<>>
    /\ host_context_lengths = <<>>
    /\ output_ids = <<>>
    /\ sequence_length_buffer = Full(batch_size, 1)
    /\ finished = <<>>
    /\ beam_hyps = SetupBeamHyps(NoConfig)
    /\ gathers = <<>>
    /\ dec_pc = "idle"
    /\ dec_step = 0
    /\ prev_sequence_length = <<>>
    /\ KvIdle
    /\ LoraIdle
    /\ PipeIdle
    /\ RestIdle

TensorNext ==
    \/ \E n \in BatchSizes, mcl \in ContextLengths :
          \E ctx \in ContextLengthsOf(n, mcl), packed \in BOOLEAN,
             c \in SamplingConfigs :
                DecodeBuffers(ctx, packed, c)
    \/ \E grow \in SUBSET (1..(batch_size * beam_width)), crit \in BOOLEAN :
          StepBuffers(grow, crit)

TensorSpec == TensorInit /\ [][TensorNext]_vars

(***************************************************************************)
(* The paged KV cache over the decodes of a session that has been set up.  *)
(***************************************************************************)
\* The session after setup(bs, mcl, mnt, beam_width = bw) on the ranks of
\* mapping m, for the model configuration config.
AfterSetup(m, bs, mcl, mnt, bw, config) ==
    /\ pp_size = m[1]
    /\ pp_rank = m[2]
    /\ cur_stream = SessionStream
    /\ batch_size = bs
    /\ max_context_length = mcl
    /\ max_new_tokens = mnt
    /\ beam_width = bw
    /\ max_seq_length = mcl + mnt
    /\ buffer_allocated = TRUE
    /\ decoder = NoDecoder
    /\ cuda_graph_instances = [i \in 0..1 |-> NoGraph]
    /\ pc = "idle"
    /\ step = 0
    /\ should_stop = FALSE
    /\ entry_stream = SessionStream
    /\ call = [op |-> "setup"]
    /\ result = Res("setup", "return", "none")
    /\ trace = <<>>
    /\ cfg = config
    /\ tp_size = 1
    /\ debug_mode = FALSE
    /\ found = ExpectedTensorNames
    /\ ctor = "ok"
    /\ debug_tensors = {}
    /\ bind_args = NoArgs
    /\ bound = NoBound

KvInit ==
    /\ \E bs \in BatchSizes, mcl \in KvContextLengths, bw \in BeamWidths,
          paged \in BOOLEAN :
            AfterSetup(<<1, 0>>, bs, mcl, MaxNewTokens, bw,
                       [DefaultConfig EXCEPT !.paged_kv_cache = paged])
    /\ cuda_graph_mode = FALSE
    /\ TensorIdle
    /\ tokens_per_block \in TokensPerBlock
    /\ kv_cache_manager = NoManager
    /\ kv_context_lengths = <<>>
    /\ kv_pc = "idle"
    /\ kv_step = 0
    /\ kv_log = <<>>
    /\ LoraIdle
    /\ PipeIdle
    /\ RestIdle

KvNext ==
    \/ \E ctx \in ContextLengthsOf(batch_size, max_context_length) :
          KvDecode(ctx)
    \/ \E ok \in BOOLEAN, stop \in BOOLEAN : KvHandlePerStep(ok, stop)

KvSpec == KvInit /\ [][KvNext]_vars

(***************************************************************************)
(* The set-ups of a session whose engine has the LoRA plugin.              *)
(***************************************************************************)
LoraInit ==
    /\ LifeInit
    /\ cuda_graph_mode = FALSE
    /\ cfg \in {LoraConfig, DefaultConfig}
    /\ tp_size = 1
    /\ debug_mode = FALSE
    /\ found = ExpectedTensorNames
    /\ ctor = "ok"
    /\ debug_tensors = {}
    /\ bind_args = NoArgs
    /\ bound = NoBound
    /\ TensorIdle
    /\ KvIdle
    /\ LoraIdle
    /\ PipeIdle
    /\ RestIdle

LoraNext ==
    \E bs \in BatchSizes, mcl \in ContextLengths, manager \in BOOLEAN :
        \E uids \in {<<>>} \cup [1..bs -> LoraUids] :
            SetupLora(bs, mcl, manager, uids)

LoraSpec == LoraInit /\ [][LoraNext]_vars

(***************************************************************************)
(* The decodes of the ranks of a pipeline group.                           *)
(***************************************************************************)
PipeInit ==
    /\ \E n \in PipeSizes : AfterSetup(<<n, 0>>, 1, 1, MaxNewTokens, 1,
                                     DefaultConfig)
    /\ cuda_graph_mode = FALSE
    /\ TensorIdle
    /\ KvIdle
    /\ LoraIdle
    /\ pipe = [r \in PipeRanks |-> RankIdle]
    /\ pipe_call = NoCall
    /\ RestIdle

PipeNext ==
    \/ \E streaming \in BOOLEAN, criteria \in BOOLEAN, processor \in BOOLEAN :
          PipeDecode(streaming, criteria, processor)
    \/ \E r \in PipeRanks, verdict \in BOOLEAN, crit \in BOOLEAN :
          PipeStep(r, verdict, crit)

PipeSpec == PipeInit /\ [][PipeNext]_vars

(***************************************************************************)
(* The decodes of a session over the contexts of its runtime.              *)
(***************************************************************************)
CtxInit ==
    /\ \E mnt \in 1..(MaxNewTokens + 2) :
          AfterSetup(<<1, 0>>, 1, 1, mnt, 1, DefaultConfig)
    /\ cuda_graph_mode \in BOOLEAN
    /\ TensorIdle
    /\ KvIdle
    /\ LoraIdle
    /\ PipeIdle
    /\ RestIdle

CtxNext ==
    \/ \E n \in ProfileCounts : RuntimePrepare(n)
    \/ CtxDecode
    \/ \E ok \in BOOLEAN, stop \in BOOLEAN : CtxHandlePerStep(ok, stop)

CtxSpec == CtxInit /\ [][CtxNext]_vars

(***************************************************************************)
(* The set-ups of a session, with a decode between them, over the buffers  *)
(* they allocate.  The engine has the LoRA plugin, so that a setup with a  *)
(* LoRA manager allocates the LoRA tensors as well.                        *)
(***************************************************************************)
BufInit ==
    /\ LifeInit
    /\ cuda_graph_mode = FALSE
    /\ \E paged \in BOOLEAN, gather \in BOOLEAN :
          cfg = [DefaultConfig EXCEPT !.paged_kv_cache = paged,
                                      !.gather_all_token_logits = gather,
                                      !.lora_plugin = TRUE]
    /\ tp_size = 1
    /\ debug_mode = FALSE
    /\ found = ExpectedTensorNames
    /\ ctor = "ok"
    /\ debug_tensors = {}
    /\ bind_args = NoArgs
    /\ bound = NoBound
    /\ TensorIdle
    /\ tokens_per_block = 2
    /\ kv_cache_manager = NoManager
    /\ kv_context_lengths = <<>>
    /\ kv_pc = "idle"
    /\ kv_step = 0
    /\ kv_log = <<>>
    /\ LoraIdle
    /\ PipeIdle
    /\ RestIdle

BufNext ==
    \/ \E shape \in SetupShapes, manager \in BOOLEAN :
          \E w \in WindowArgs(shape[2] + MaxNewTokens) :
              SetupWindow(shape[1], shape[2], MaxNewTokens, shape[3], w,
                          manager)
    \/ BufDecode

BufSpec == BufInit /\ [][BufNext]_vars

(***************************************************************************)
(* The regular decodes of a session that has been set up, with the         *)
(* penalties of their sampling configurations.                             *)
(***************************************************************************)
PenaltyInit ==
    /\ \E bs \in BatchSizes :
          AfterSetup(<<1, 0>>, bs, 1, MaxNewTokens, 1, DefaultConfig)
    /\ cuda_graph_mode \in BOOLEAN
    /\ TensorIdle
    /\ KvIdle
    /\ LoraIdle
    /\ PipeIdle
    /\ RestIdle

PenaltyNext ==
    \/ \E presence \in PenaltyArgs(0, batch_size),
          repetition \in PenaltyArgs(1, batch_size) :
            DecodePenalties(presence, repetition)
    \/ \E fault \in Faults(step), verdict \in BOOLEAN, crit \in BOOLEAN :
            RegularStep(fault, verdict, crit)
    \/ RegularExhausted

PenaltySpec == PenaltyInit /\ [][PenaltyNext]_vars

(***************************************************************************)
(* to_word_list_format on the word lists of a batch of one or two items.   *)
(***************************************************************************)
WordInit ==
    /\ AfterSetup(<<1, 0>>, 1, 1, MaxNewTokens, 1, DefaultConfig)
    /\ cuda_graph_mode = FALSE
    /\ TensorIdle
    /\ KvIdle
    /\ LoraIdle
    /\ PipeIdle
    /\ RestIdleButWords
    /\ word_dict \in UNION {[1..n -> Strings] : n \in 1..2}
    /\ word_list = <<>>

WordNext == CallToWordListFormat

WordSpec == WordInit /\ [][WordNext]_vars

(***************************************************************************)
(* The runs of examples/run.py, as far as print_output goes.               *)
(***************************************************************************)
RunInit ==
    /\ AfterSetup(<<1, 0>>, 1, 1, MaxNewTokens, 1, DefaultConfig)
    /\ cuda_graph_mode = FALSE
    /\ TensorIdle
    /\ KvIdle
    /\ LoraIdle
    /\ PipeIdle
    /\ RestIdle

RunNext == \E a \in PrintArgs : CallPrintOutput(a)

RunSpec == RunInit /\ [][RunNext]_vars

(***************************************************************************)
(* Calls of _set_tensors on one context of a runtime, for every order the  *)
(* engine may declare its tensors in.                                      *)
(***************************************************************************)
SetInit ==
    /\ LifeInit
    /\ cuda_graph_mode = FALSE
    /\ cfg = DefaultConfig
    /\ tp_size = 1
    /\ debug_mode = FALSE
    /\ found = ExpectedTensorNames
    /\ ctor = "ok"
    /\ debug_tensors = {}
    /\ bind_args = NoArgs
    /\ bound = NoBound
    /\ TensorIdle
    /\ KvIdle
    /\ LoraIdle
    /\ PipeIdle
    /\ CtxIdle
    /\ BufIdle
    /\ PenIdle
    /\ WordIdle
    /\ RunIdle
    /\ IoIdle
    /\ engine_io \in EngineOrders
    /\ context_io = [name \in EngineTensors |-> Unbound]
    /\ set_call = [op |-> "none"]

SetNext == \E tensors \in TensorDicts : CallSetTensors(tensors)

SetSpec == SetInit /\ [][SetNext]_vars

(***************************************************************************)
(* The decodes of a session on a contiguous KV cache, with and without the *)
(* attention plugin, over the tensors bound for each launch.  The engine   *)
(* takes position ids in the configurations with the plugin.               *)
(***************************************************************************)
IoInit ==
    /\ \E bs \in BatchSizes, mcl \in ContextLengths, bw \in BeamWidths,
          mnt \in 1..(MaxNewTokens + 2), plugin \in BOOLEAN,
          packed \in BOOLEAN :
            AfterSetup(<<1, 0>>, bs, mcl, mnt, bw,
                       [DefaultConfig EXCEPT
                          !.gpt_attention_plugin = plugin,
                          !.remove_input_padding = plugin /\ packed,
                          !.has_position_embedding = plugin])
    /\ cuda_graph_mode = FALSE
    /\ TensorIdle
    /\ KvIdle
    /\ LoraIdle
    /\ PipeIdle
    /\ CtxIdle
    /\ BufIdle
    /\ PenIdle
    /\ WordIdle
    /\ RunIdle
    /\ IoIdle
    /\ SetIdle

IoNext ==
    \/ \E ctx \in ContextLengthsOf(batch_size, max_context_length) :
          IoDecode(ctx)
    \/ \E stop \in BOOLEAN : IoHandlePerStep(stop)

IoSpec == IoInit /\ [][IoNext]_vars

(***************************************************************************)
(* Reading the history.                                                    *)
(***************************************************************************)
Events(tr, kind) == SelectSeq(tr, LAMBDA e : e.ev = kind)

Count(tr, kind) == Len(Events(tr, kind))

FinalizeCount(tr, mode) ==
    Len(SelectSeq(tr, LAMBDA e : e.ev = "finalize" /\ e.arg = mode))

DecodeActive == pc \in {"running", "gen_start", "gen_yield", "gen_final"}

(***************************************************************************)
(* C1.  A decode set up with max_new_tokens = N launches the engine at     *)
(* most N times, once per step, for the steps 0, 1, 2, ... in this order,  *)
(* and the decode then comes to its end.                                   *)
(***************************************************************************)
C1_LaunchesInOrder ==
    LET launches == Events(trace, "launch")
    IN  /\ Len(launches) > 0 => Len(launches) <= max_new_tokens
        /\ \A i \in 1..Len(launches) : launches[i].step = i - 1

C1_AtMostNLaunchesThenEnd ==
    /\ []C1_LaunchesInOrder
    /\ DecodeActive ~> (pc = "idle")

C1_Witness ==
    /\ pc = "idle"
    /\ result = Res("decode", "return", "output_ids")
    /\ max_new_tokens = MaxNewTokens
    /\ Count(trace, "launch") = max_new_tokens

(***************************************************************************)
(* C2.  Once should_stop is true at the end of a step, the decode launches *)
(* no further step and invokes the decoder no more, in regular and in      *)
(* streaming mode.                                                         *)
(***************************************************************************)
C2_NoStepAfterStop ==
    [][(should_stop /\ pc # "idle")
          => /\ Count(trace', "launch") = Count(trace, "launch")
             /\ Count(trace', "decoder") = Count(trace, "decoder")]_vars

C2_Witness ==
    /\ pc = "gen_yield"
    /\ should_stop
    /\ step \in LoopRange(max_new_tokens)

(***************************************************************************)
(* C3.  After a setup, a decode whose batch size, maximum context length   *)
(* (smaller or larger) or beam width differs from the one of the setup is  *)
(* rejected by an assertion, with the decoder and the session buffers as   *)
(* they were and no engine launch.                                         *)
(***************************************************************************)
C3_MismatchRejectedEarly ==
    [][(/\ pc = "idle"
        /\ call'.op = "decode"
        /\ batch_size # Unset
        /\ \/ call'.batch_size # batch_size
           \/ call'.max_context_length # max_context_length
           \/ call'.beam_width # beam_width)
          => /\ pc' = "idle"
             /\ result' = Res("decode", "raise", "AssertionError")
             /\ decoder' = decoder
             /\ cuda_graph_instances' = cuda_graph_instances
             /\ trace' = <<>>]_vars

C3_Witness ==
    /\ result = Res("decode", "raise", "AssertionError")
    /\ call.max_context_length < max_context_length
    /\ call.batch_size = batch_size
    /\ call.beam_width = beam_width
    /\ decoder.ready
    /\ ~decoder.fresh

(***************************************************************************)
(* C4.  Outside debug mode the construction of a session fails exactly     *)
(* when the set of the names the engine declares differs from the expected *)
(* set, be it by a missing or by an unexpected name; in debug mode it      *)
(* never fails for the names, and the names of the engine that are not     *)
(* expected are the debug tensors.                                         *)
(***************************************************************************)
C4_RejectedIffNamesDiffer ==
    ctor # "new"
        => /\ ~debug_mode
                => (ctor = "rejected"
                        <=> \/ ExpectedTensorNames \ found # {}
                            \/ found \ ExpectedTensorNames # {})
           /\ debug_mode
                => /\ ctor = "ok"
                   /\ debug_tensors = found \ ExpectedTensorNames

C4_Witness ==
    /\ ctor = "rejected"
    /\ ~debug_mode
    /\ ExpectedTensorNames \ found = {}
    /\ found \ ExpectedTensorNames # {}

(***************************************************************************)
(* C5.  In a session constructed outside debug mode, every expected name   *)
(* is a key of the dictionary bound at the context step and of the         *)
(* dictionary bound for each generation step (for a caller that passes the *)
(* prompt table whenever the configuration has one).                       *)
(***************************************************************************)
C5_ExpectedNamesBound ==
    (/\ ctor = "ok"
     /\ ~debug_mode
     /\ cfg.max_prompt_embedding_table_size > 0
            => bind_args.prompt_embedding_table
     /\ bound.phase \in {"context", "generation"}
     /\ bound.raised = "none")
        => ExpectedTensorNames \subseteq bound.names

(***************************************************************************)
(* C6.  Every engine launch and every invocation of the decoder runs while *)
(* the session's stream is the current stream.                             *)
(***************************************************************************)
C6_StepsOnSessionStream ==
    \A i \in 1..Len(trace) :
        trace[i].ev \in {"launch", "decoder"} => trace[i].stream = SessionStream

(***************************************************************************)
(* C7.  When decode exits, by returning or by raising, the stream that was *)
(* current for the caller at entry is current again.                       *)
(***************************************************************************)
C7_StreamRestoredOnExit ==
    (/\ result.from = "decode"
     /\ \/ result.kind = "return"
        \/ /\ result.kind = "raise"
           /\ result.what \in {"AssertionError", "LaunchError",
                                "DecoderError"})
        => cur_stream = entry_stream

(***************************************************************************)
(* C8.  An engine launch that reports failure is the last thing its decode *)
(* does: the decode raises, the decoder is not invoked for that step, no   *)
(* later step is launched, nothing is returned or yielded for that step or *)
(* after it.                                                               *)
(***************************************************************************)
C8_LaunchFailureEndsDecode ==
    \A i \in 1..Len(trace) :
        (trace[i].ev = "launch" /\ ~trace[i].ok)
            => /\ i = Len(trace)
               /\ pc = "idle"
               /\ result.kind = "raise"
               /\ result.what = "LaunchError"

C8_Witness ==
    /\ Len(trace) > 0
    /\ trace[Len(trace)].ev = "launch"
    /\ ~trace[Len(trace)].ok
    /\ trace[Len(trace)].step >= 1
    /\ call.streaming
    /\ Count(trace, "yield") >= 1

(***************************************************************************)
(* C9.  A regular decode that returns has made the final (not in-progress) *)
(* finalize_decoder call exactly once, as the last thing after its last    *)
(* executed step, whether it stopped early or ran out of steps.            *)
(***************************************************************************)
C9_RegularFinalizesOnce ==
    (call.op = "decode" /\ ~call.streaming
        /\ result = Res("decode", "return", "output_ids"))
        => /\ FinalizeCount(trace, "final") = 1
           /\ trace[Len(trace)].ev = "finalize"
           /\ trace[Len(trace)].arg = "final"
           /\ trace[Len(trace)].step = Count(trace, "launch") - 1

C9_Witness ==
    /\ call.op = "decode"
    /\ ~call.streaming
    /\ result = Res("decode", "return", "output_ids")
    /\ FinalizeCount(trace, "in_progress") >= 2
    /\ Count(trace, "launch") = 2

(***************************************************************************)
(* C10.  A streaming decode with max_new_tokens >= 1, whose decoder        *)
(* reports should_stop at the last step (decode_step + 1 = max_new_tokens  *)
(* + max_context_length), yields exactly once after each executed step,    *)
(* each time what finalize_decoder(in_progress = True) has just produced   *)
(* for that step; it yields nothing after the step whose should_stop was   *)
(* true, so that it has yielded as often as it has executed steps.         *)
(***************************************************************************)
\* The hypothesis on the decoder: no forward of the last step returned
\* without should_stop.
DecoderStopsAtLimit ==
    \A i \in 1..Len(trace) :
        (/\ trace[i].ev = "decoder"
         /\ trace[i].step + call.max_context_length + 1
                = max_new_tokens + max_context_length)
            => trace[i].arg # "continue"

C10_StreamYieldsPerStep ==
    (/\ call.op = "decode"
     /\ call.streaming
     /\ max_new_tokens >= 1
     /\ DecoderStopsAtLimit)
        => /\ pc # "gen_final"
           /\ \A i \in 1..Len(trace) :
                trace[i].ev = "yield"
                    => /\ trace[i].arg = "in_progress"
                       /\ i > 1
                       /\ trace[i - 1].ev = "finalize"
                       /\ trace[i - 1].arg = "in_progress"
                       /\ trace[i - 1].step = trace[i].step
           /\ \A i, j \in 1..Len(trace) :
                (trace[i].ev = "yield" /\ trace[j].ev = "yield" /\ i # j)
                    => trace[i].step # trace[j].step
           /\ (pc = "gen_yield"
                 \/ result = Res("generator", "return", "StopIteration"))
                => Count(trace, "yield") = Count(trace, "launch")

C10_Witness ==
    /\ call.op = "decode"
    /\ call.streaming
    /\ result = Res("generator", "return", "StopIteration")
    /\ Count(trace, "yield") = 2
    /\ Count(trace, "launch") = 2

(***************************************************************************)
(* C11.  Every finalize_decoder call made with in_progress = True while    *)
(* use_beam_hyps is set (for the logits processor, for the stopping        *)
(* criterion, for the yield of a streaming decode) leaves the eight live   *)
(* beam hypotheses tensors as they were.                                   *)
(***************************************************************************)
C11_InProgressKeepsBeamHyps ==
    \A i \in 1..Len(gathers) :
        (gathers[i].in_progress /\ scfg.use_beam_hyps)
            => \A h \in BeamHypsNames :
                    gathers[i].after[h] = gathers[i].before[h]

C11_Witness ==
    /\ scfg.use_beam_hyps
    /\ \E i, j, k \in 1..Len(gathers) :
          /\ gathers[i].site = "logits_processor"
          /\ gathers[j].site = "stopping_criteria"
          /\ gathers[k].site = "decode_stream"
          /\ gathers[k].step = 1
          /\ gathers[k].in_progress
          /\ gathers[k].before["is_done"] = "decoded"

(***************************************************************************)
(* C12.  From the set-up of the decoder's buffers on and after every step, *)
(* output_ids[b, k, t] is the input token of sequence b at position t for  *)
(* every batch entry b, beam k and position t below context_lengths[b],    *)
(* for padded and for packed input.                                        *)
(***************************************************************************)
C12_ContextKeptInOutputIds ==
    dec_pc # "idle"
        => /\ Len(output_ids) = Len(host_context_lengths)
           /\ \A b \in 1..Len(output_ids) :
                /\ Len(output_ids[b]) = scfg.num_beams
                /\ \A k \in 1..scfg.num_beams :
                     \A t \in 1..host_context_lengths[b] :
                        output_ids[b][k][t] = InputToken(b, t)

C12_Witness ==
    /\ dec_pc = "done"
    /\ dec_step = 2
    /\ Len(input_ids) # Len(host_context_lengths)
    /\ scfg.num_beams = 2
    /\ host_context_lengths = <<1, 2>>
    /\ output_ids[1][2][2] = SampledToken(0)

(***************************************************************************)
(* C13.  When the decoder's buffers are set up, output_ids[b, k, t] is the *)
(* end id for every batch entry b, beam k and position t from              *)
(* context_lengths[b] on.                                                  *)
(***************************************************************************)
C13_EndIdAfterContext ==
    (dec_pc = "decoding" /\ dec_step = 0)
        => \A b \in 1..Len(output_ids) :
             \A k \in 1..Len(output_ids[b]) :
                \A t \in 1..Len(output_ids[b][k]) :
                    t > host_context_lengths[b]
                        => output_ids[b][k][t] = scfg.end_id

(***************************************************************************)
(* C14.  After step s every entry of sequence_length_buffer is at most     *)
(* context_lengths[b] + s + 1; the buffer is the context lengths, tiled to *)
(* the beams, when the decoder runs in step 0, and afterwards the decoder  *)
(* alone changes it, by at most one per step.                              *)
(***************************************************************************)
C14_SequenceLengthBounded ==
    (dec_pc # "idle" /\ dec_step >= 1)
        => /\ Len(sequence_length_buffer)
                = Len(host_context_lengths) * scfg.num_beams
           /\ Len(prev_sequence_length) = Len(sequence_length_buffer)
           /\ \A b \in 1..Len(host_context_lengths) :
                \A k \in 1..scfg.num_beams :
                    LET i == (b - 1) * scfg.num_beams + k
                    IN  /\ sequence_length_buffer[i]
                              <= host_context_lengths[b] + (dec_step - 1) + 1
                        /\ sequence_length_buffer[i] - prev_sequence_length[i]
                              \in {0, 1}
                        /\ dec_step = 1
                              => prev_sequence_length[i]
                                    = host_context_lengths[b]

C14_Witness ==
    /\ dec_step = 2
    /\ scfg.num_beams = 2
    /\ host_context_lengths = <<2, 1>>
    /\ sequence_length_buffer = <<4, 3, 3, 2>>


(***************************************************************************)
(* C15.  In a step that handle_per_step completes on the last pipeline     *)
(* rank, a supplied logits processor has been applied before the decoder's *)
(* forward of that step, and a stopping criterion is evaluated only after  *)
(* it; the step's should_stop is true exactly when the decoder returned    *)
(* true or the criterion returned true, so that a stop of the decoder is   *)
(* never turned into a continue.                                           *)
(***************************************************************************)
\* The positions of the history that hold an event of this kind of step s.
At(kind, s) == {i \in 1..Len(trace) : trace[i].ev = kind /\ trace[i].step = s}

\* The last step whose forward returned, when the call has not raised.
StepDone(s) ==
    /\ call.op = "decode"
    /\ result.kind # "raise"
    /\ At("decoder", s) # {}
    /\ \A i \in 1..Len(trace) : trace[i].ev = "decoder" => trace[i].step <= s

C15_ProcessorBeforeCriteriaAfter ==
    /\ \A i \in 1..Len(trace) :
            trace[i].ev = "decoder"
                => /\ is_last_pp_rank
                   /\ call.processor
                        => \E j \in At("processor", trace[i].step) : j < i
                   /\ \A j \in At("processor", trace[i].step) : j < i
                   /\ \A j \in At("criteria", trace[i].step) : j > i
    /\ \A i \in 1..Len(trace) :
            trace[i].ev = "criteria"
                => call.criteria /\ At("decoder", trace[i].step) # {}
    /\ \A s \in 0..MaxNewTokens :
            StepDone(s)
                => (should_stop
                        <=> \/ \E i \in At("decoder", s) : trace[i].arg = "stop"
                            \/ \E i \in At("criteria", s) : trace[i].arg = "stop")

\* A second step with a processor and a criterion, in which the decoder did
\* not stop and the criterion did.
C15_Witness ==
    /\ StepDone(1)
    /\ call.processor
    /\ call.criteria
    /\ should_stop
    /\ \E i \in At("decoder", 1) : trace[i].arg = "continue"
    /\ \E i \in At("criteria", 1) : trace[i].arg = "stop"
    /\ At("processor", 1) # {}

(***************************************************************************)
(* C16.  With the paged KV cache, after every call made to the manager     *)
(* before the final release, the number of live blocks is the sum over the *)
(* batch entries b of ceil((context_lengths[b] + steps_taken[b]) /         *)
(* tokens_per_block), also when the context lengths differ.                *)
(***************************************************************************)
RECURSIVE LiveBlocks(_)
LiveBlocks(seqs) ==
    IF seqs = <<>> THEN 0 ELSE Head(seqs).blocks + LiveBlocks(Tail(seqs))

RECURSIVE ExpectedBlocks(_, _)
ExpectedBlocks(ctx, taken) ==
    IF ctx = <<>> THEN 0
    ELSE Ceil(Head(ctx) + taken, tokens_per_block)
            + ExpectedBlocks(Tail(ctx), taken)

\* The advances (step with should_free all false) among the first i calls.
StepsTaken(i) ==
    Cardinality({j \in 1..i : kv_log[j].op = "step" /\ ~kv_log[j].arg})

C16_LiveBlocksFollowOwnLengths ==
    \A i \in 1..Len(kv_log) :
        ~(kv_log[i].op = "step" /\ kv_log[i].arg)
            => LiveBlocks(kv_log[i].seqs)
                    = ExpectedBlocks(kv_context_lengths, StepsTaken(i))

(***************************************************************************)
(* C17.  With the paged KV cache, every sequence of the batch's context    *)
(* length L starts with ceil(L / tokens_per_block) blocks; the manager is  *)
(* advanced by one token (should_free all false) once in every step except *)
(* the last one, right before the block pointers of the next step are      *)
(* requested for the beam width; with no early stop the sequence has       *)
(* L + max_new_tokens - 1 tokens and ceil((L + max_new_tokens - 1) /       *)
(* tokens_per_block) blocks when the last step releases all blocks.        *)
(***************************************************************************)
\* The decode has run all its steps.
NoEarlyStop == kv_pc = "done" /\ kv_step = max_new_tokens

\* The manager's sequences when the final release is called.
BeforeRelease == kv_log[Len(kv_log) - 1].seqs

Advances(s) ==
    {i \in 1..Len(kv_log) :
        kv_log[i].op = "step" /\ ~kv_log[i].arg /\ kv_log[i].step = s}

C17_AdvancedBeforeEachNextStep ==
    (cfg.paged_kv_cache /\ kv_pc # "idle")
        => LET L == max_context_length
               tpb == tokens_per_block
           IN  /\ \A b \in 1..Len(kv_cache_manager) :
                    kv_step > 0
                        => /\ kv_log[1].op = "get_pointer_arrays"
                           /\ kv_log[1].seqs[b].tokens = L
                           /\ kv_log[1].seqs[b].blocks = Ceil(L, tpb)
               /\ \A s \in 0..(kv_step - 1) :
                    /\ Cardinality(Advances(s))
                            = IF s = max_new_tokens - 1 THEN 0 ELSE 1
                    /\ \A i \in Advances(s) :
                            /\ i < Len(kv_log)
                            /\ kv_log[i + 1].op = "get_pointer_arrays"
                            /\ kv_log[i + 1].arg = beam_width
                            /\ kv_log[i + 1].step = s
                            /\ kv_log[i + 1].seqs = kv_log[i].seqs
               /\ NoEarlyStop
                    => /\ Len(kv_log) >= 2
                       /\ kv_log[Len(kv_log)].op = "step"
                       /\ kv_log[Len(kv_log)].arg
                       /\ \A b \in 1..Len(kv_cache_manager) :
                            /\ BeforeRelease[b].tokens
                                    = L + max_new_tokens - 1
                            /\ BeforeRelease[b].blocks
                                    = Ceil(L + max_new_tokens - 1, tpb)
                            /\ kv_cache_manager[b].blocks = 0

\* A decode that ran all its steps, in which a sequence grew by a block.
C17_Witness ==
    /\ cfg.paged_kv_cache
    /\ NoEarlyStop
    /\ max_new_tokens >= 2
    /\ tokens_per_block = 2
    /\ max_context_length = 2
    /\ Len(kv_log) >= 2
    /\ kv_log[1].seqs[1].blocks = 1
    /\ BeforeRelease[1].blocks = 2

\* The statement with a token for each of the max_new_tokens steps, for the
\* sequences of the batch's context length, when the blocks are released.
C17_TokenPerStep ==
    (cfg.paged_kv_cache /\ NoEarlyStop /\ Len(kv_log) >= 2)
        => \A b \in 1..Len(kv_cache_manager) :
              kv_context_lengths[b] = max_context_length
                => LET L == kv_context_lengths[b]
                   IN  /\ kv_log[1].seqs[b].blocks = Ceil(L, tokens_per_block)
                       /\ BeforeRelease[b].tokens = L + max_new_tokens
                       /\ BeforeRelease[b].blocks
                            = Ceil(L + max_new_tokens, tokens_per_block)

(***************************************************************************)
(* C18.  After a setup with LoRA active (the plugin, a manager and         *)
(* lora_uids), for every batch entry b, local layer L and target module M: *)
(* when lora_uids[b] is None or "-1", {M}_lora_ranks_L[b] is 0 and the two *)
(* weight pointers of row b are 0; otherwise the rank is the one the       *)
(* manager gives for (uid, L, M) and the row is the pointer pair it gives  *)
(* for (L, uid, M).  The buffer has these entries and no other, so the     *)
(* entry of a batch element depends on its own uid only.                   *)
(***************************************************************************)
LoraActive ==
    /\ cfg.lora_plugin
    /\ session_lora_manager
    /\ result = Res("setup", "return", "none")

C18_LoraEntriesPerUid ==
    LoraActive
        => /\ DOMAIN lora_buffer = LoraRanks \cup LoraWeightsPointers
           /\ \A L \in first_layer..(last_layer - 1) :
                \A M \in cfg.lora_target_modules :
                    LET ranks == lora_buffer[M \o "_lora_ranks_" \o ToString(L)]
                        ptrs == lora_buffer[M \o "_lora_weights_pointers_"
                                              \o ToString(L)]
                    IN  /\ DOMAIN ranks = 1..batch_size
                        /\ DOMAIN ptrs = 1..batch_size
                        /\ \A b \in 1..batch_size :
                            IF lora_uids[b] \in {NoUid, "-1"}
                            THEN ranks[b] = 0 /\ ptrs[b] = <<0, 0>>
                            ELSE /\ ranks[b]
                                      = UidToLowRanks(lora_uids[b], L, M)
                                 /\ ptrs[b]
                                      = LoraWeightsPointersList(L,
                                            lora_uids[b], M)

\* The spec's scenario, on the second rank of a pipeline of two.
C18_Witness ==
    /\ LoraActive
    /\ pp_size = 2
    /\ pp_rank = 1
    /\ lora_uids = <<"a", "-1">>
    /\ lora_buffer["attn_q_lora_ranks_1"] = <<UidToLowRanks("a", 1, "attn_q"), 0>>

(***************************************************************************)
(* C19.  With pipeline parallelism no decode of a rank ends in its         *)
(* communication, and the messages the last rank sends to a rank (per step *)
(* should_stop, the cache indirection and the sequence lengths to every    *)
(* other rank and the new tokens to the first; the final output ids to the *)
(* first) meet the receives this rank posts, in the same order and for the *)
(* same buffer, with or without a stopping criterion or logits processor.  *)
(***************************************************************************)
\* The communication calls of rank r with this operation and peer.
CommOf(r, op, peer) ==
    SelectSeq(pipe[r].comm, LAMBDA c : c.op = op /\ c.peer = peer)

C19_SendsMeetReceives ==
    (pp_size > 1 /\ pipe_call.op = "decode")
        => \A r \in PipeRanks :
            /\ pipe[r].raised = "none"
            /\ r # LastRank
                => LET sent == CommOf(LastRank, "send", r)
                       posted == CommOf(r, "recv", LastRank)
                   IN  /\ \A i \in 1..Len(sent) :
                            i <= Len(posted)
                                => sent[i].buffer = posted[i].buffer
                       /\ (\A q \in PipeRanks : pipe[q].pc # "loop")
                            => Len(sent) = Len(posted)

(***************************************************************************)
(* C20.  With pipeline parallelism only the last rank invokes the decoder, *)
(* and a rank that is through with a step has the should_stop the last     *)
(* rank got for it; the ranks whose decode is over have run the same       *)
(* number of steps and have left the loop by its end, not by an exception. *)
(***************************************************************************)
C20_RanksAgreeOnStop ==
    (pp_size > 1 /\ pipe_call.op = "decode")
        => /\ \A r \in PipeRanks : pipe[r].decoded > 0 => r = LastRank
           /\ \A r \in PipeRanks :
                (/\ pipe[r].step = pipe[LastRank].step
                 /\ pipe[r].raised = "none"
                 /\ pipe[LastRank].raised = "none")
                    => pipe[r].should_stop = pipe[LastRank].should_stop
           /\ \A r \in PipeRanks : pipe[r].pc # "raised"
           /\ \A r, q \in PipeRanks :
                (pipe[r].pc = "done" /\ pipe[q].pc = "done")
                    => pipe[r].step = pipe[q].step

\* C21: __prepare makes the contexts from the engine's number of
\* optimization profiles.  One profile: context_0 and context_1 are two
\* distinct contexts on profile 0 and ctx_context is the object context_1.
\* Two profiles: ctx_context is a third context, on profile 0, and
\* context_0 and context_1 are distinct contexts on profile 1.  Any other
\* number is rejected with an AssertionError and no context is kept.
C21_ContextsPerProfileCount ==
    [][\A n \in ProfileCounts : RuntimePrepare(n) =>
          LET r == runtime' IN
          /\ (n = 1) =>
                /\ r.status = "ok"
                /\ r.context_0 # r.context_1
                /\ r.ctx_context = r.context_1
                /\ r.profile[r.context_0] = 0
                /\ r.profile[r.context_1] = 0
          /\ (n = 2) =>
                /\ r.status = "ok"
                /\ Cardinality({r.ctx_context, r.context_0, r.context_1}) = 3
                /\ r.profile[r.ctx_context] = 0
                /\ r.profile[r.context_0] = 1
                /\ r.profile[r.context_1] = 1
          /\ (n \notin {1, 2}) =>
                /\ r.status = "AssertionError"
                /\ r.profile = <<>>]_vars

C21_Witness ==
    /\ runtime.status = "ok"
    /\ runtime.ctx_context = runtime.context_1
    /\ runtime.context_0 # runtime.context_1

\* The launches of the decode, as positions of its log.
Launches == {i \in DOMAIN ctx_log : ctx_log[i].op = "launch"}

\* Step s bound the next step's tensors on context c before position i.
BoundNextBefore(i, s, c) ==
    \E j \in 1..(i - 1) :
        /\ ctx_log[j].op = "next"
        /\ ctx_log[j].step = s
        /\ ctx_log[j].context = c

\* C29 (as stated): within one decode step 0 and only step 0 is launched on
\* the context ctx_context; odd steps are launched on context_0, even steps
\* from 2 on context_1; and the context launched at step n >= 1 is the one
\* step n-1 bound the next step's tensors on.
C29_OnlyStepZeroOnCtxContext ==
    \A i \in Launches :
        LET e == ctx_log[i] IN
        /\ (e.context = runtime.ctx_context) <=> (e.step = 0)
        /\ (e.step % 2 = 1) => e.context = runtime.context_0
        /\ (e.step >= 2 /\ e.step % 2 = 0) => e.context = runtime.context_1
        /\ (e.step >= 1) => BoundNextBefore(i, e.step - 1, e.context)

\* C29 (amended): step 0 is launched on ctx_context, odd steps on context_0,
\* even steps from 2 on context_1, and the context launched at step n >= 1
\* is the one step n-1 bound the next step's tensors on; a later step runs
\* on the object ctx_context only on a one-profile engine, where that
\* object is context_1, and then it is an even step.
C29_LaunchFollowsBinding ==
    \A i \in Launches :
        LET e == ctx_log[i] IN
        /\ (e.step = 0) => e.context = runtime.ctx_context
        /\ (e.step % 2 = 1) => e.context = runtime.context_0
        /\ (e.step >= 2 /\ e.step % 2 = 0) => e.context = runtime.context_1
        /\ (e.step >= 1) => BoundNextBefore(i, e.step - 1, e.context)
        /\ (e.step >= 1 /\ e.context = runtime.ctx_context) =>
                /\ runtime = OneProfileContexts
                /\ e.step % 2 = 0

C29_Witness ==
    /\ runtime = OneProfileContexts
    /\ \E i \in Launches :
          /\ ctx_log[i].step = 2
          /\ ctx_log[i].context = runtime.ctx_context
    /\ \E i \in Launches : ctx_log[i].step = 1

\* C30: in every step that binds the tensors of a following step, the
\* context launched in the step and the context the next step's tensors are
\* bound on are two distinct objects, on one-profile engines (where
\* ctx_context is context_1) and on two-profile engines.
C30_LaunchedAndNextDistinct ==
    \A j \in DOMAIN ctx_log :
        ctx_log[j].op = "next" =>
            \E i \in Launches :
                /\ i < j
                /\ ctx_log[i].step = ctx_log[j].step
                /\ ctx_log[i].context # ctx_log[j].context
                /\ ctx_log[i].context \in DOMAIN runtime.profile
                /\ ctx_log[j].context \in DOMAIN runtime.profile

C30_Witness ==
    /\ runtime = OneProfileContexts
    /\ \E j \in DOMAIN ctx_log :
          /\ ctx_log[j].op = "next"
          /\ ctx_log[j].step = 0
          /\ ctx_log[j].context = runtime.context_0
    /\ \E j \in DOMAIN ctx_log : ctx_log[j].op = "next" /\ ctx_log[j].step = 2

\* The last setup call returned.
SetupReturned == result = Res("setup", "return", "none")

\* C22: after every setup that returns, max_attention_window_size is at
\* most max_seq_length and there is one host window size per local layer,
\* each at most max_seq_length: for an omitted window, for an integer (also
\* one larger than max_seq_length) and for a per-layer tensor (also one
\* with entries larger than max_seq_length).
C22_WindowWithinMaxSeqLength ==
    SetupReturned =>
        /\ max_attention_window_size <= max_seq_length
        /\ Len(host_max_attention_window_sizes) = num_layers
        /\ \A i \in DOMAIN host_max_attention_window_sizes :
              host_max_attention_window_sizes[i] <= max_seq_length

C22_Witness ==
    /\ SetupReturned
    /\ setup_call.max_attention_window_size.kind = "Tensor"
    /\ \E i \in DOMAIN setup_call.max_attention_window_size.values :
          /\ setup_call.max_attention_window_size.values[i] > max_seq_length
          /\ host_max_attention_window_sizes[i] = max_seq_length

\* C23: a setup with max_attention_window_size = max_context_length +
\* max_new_tokens leaves the session in the state the same setup without
\* the argument leaves it in: the window size, the per-layer sizes, the
\* names, shapes and dtypes of self.buffer (with them the number of paged
\* blocks), so that a following decode finds the same tensors to bind.
C23_FullWindowAsOmitted ==
    [][\A shape \in SetupShapes, mnt \in 1..MaxNewTokens, manager \in BOOLEAN :
          SetupState(shape[1], shape[2], mnt, shape[3],
                     WindowInt(shape[2] + mnt), manager)
          => SetupState(shape[1], shape[2], mnt, shape[3], WindowNone,
                        manager)]_vars

C23_Witness ==
    /\ SetupReturned
    /\ setup_call.max_attention_window_size = WindowInt(max_seq_length)
    /\ max_attention_window_size = max_seq_length
    /\ cfg.paged_kv_cache
    /\ buf_ops = <<"setup">>

\* C24: a setup with a per-layer window tensor whose length is not the
\* number of local layers (the model's layers over pp_size) raises and
\* leaves buffer_allocated as it was; one of that length returns and marks
\* the buffers allocated.
C24_WindowTensorLength ==
    [][\A shape \in SetupShapes, mnt \in 1..MaxNewTokens, manager \in BOOLEAN :
          \A w \in WindowArgs(shape[2] + mnt) :
              (/\ w.kind = "Tensor"
               /\ SetupWindow(shape[1], shape[2], mnt, shape[3], w, manager))
              => IF Len(w.values) # cfg.num_layers \div pp_size
                 THEN /\ result' = Res("setup", "raise", "AssertionError")
                      /\ buffer_allocated' = buffer_allocated
                      /\ self_buffer' = self_buffer
                 ELSE /\ result' = Res("setup", "return", "none")
                      /\ buffer_allocated']_vars

C24_Witness ==
    /\ result = Res("setup", "raise", "AssertionError")
    /\ setup_call.max_attention_window_size.kind = "Tensor"
    /\ Len(setup_call.max_attention_window_size.values) = cfg.num_layers
    /\ pp_size = 2
    /\ ~buffer_allocated

\* C26: a setup that returns leaves in self.buffer exactly the names of
\* its arguments, whatever self.buffer held before, and a setup with the
\* arguments of the call before it, which returned, leaves the names,
\* shapes and dtypes that call left, also when a decode tiled or reshaped
\* the tensors in between.
C26_SetupRebuildsBuffer ==
    [][\A shape \in SetupShapes, mnt \in 1..MaxNewTokens, manager \in BOOLEAN :
          \A w \in WindowArgs(shape[2] + mnt) :
              (/\ SetupWindow(shape[1], shape[2], mnt, shape[3], w, manager)
               /\ result'.kind = "return")
              => /\ DOMAIN self_buffer' = BufferNames'
                 /\ (setup_call = setup_call' /\ setup_buffer # <<>>)
                        => self_buffer' = setup_buffer]_vars

C26_Witness ==
    /\ buf_ops = <<"decode", "setup">>
    /\ beam_width = 2
    /\ cfg.gather_all_token_logits
    /\ ~cfg.paged_kv_cache
    /\ self_buffer = setup_buffer
    /\ self_buffer # BufferAfterContextStep(self_buffer, batch_size, beam_width)

\* A penalty attribute holds a value other than the default.
NonDefault(attr, default) ==
    \E i \in DOMAIN attr.values : attr.values[i] # default

LaunchedSteps == {i \in DOMAIN trace : trace[i].ev = "launch"}

\* C25: a decode whose configuration has both a presence penalty other
\* than 0.0 and a repetition penalty other than 1.0 is rejected before a
\* launch; one with at most one of the two other than the default is not
\* rejected.
C25_PenaltyConflictRejected ==
    (call.op = "decode") =>
        IF NonDefault(presence_penalty, 0) /\ NonDefault(repetition_penalty, 1)
        THEN /\ result = Res("decode", "raise", "PenaltyConflict")
             /\ LaunchedSteps = {}
        ELSE result # Res("decode", "raise", "PenaltyConflict")

\* The ids of a string: the ones of its characters other than the commas.
IdsOf(str) == Encode(SelectSeq(str, LAMBDA c : c # ","))

\* The numbers of ids up to the end of each word of a string.
EndOffsets(str) ==
    {Len(IdsOf(SubSeq(str, 1, i))) :
        i \in {k \in DOMAIN str : k = Len(str) \/ str[k + 1] = ","}} \ {0}

\* C27: to_word_list_format returns, per item of the batch, two rows of
\* P = max(1, largest number of ids of an item) entries: row 0 is the ids
\* of the item's comma-separated words in order, padded on the right with
\* 0; row 1 is the cumulative end offsets of the words that have ids,
\* strictly increasing and ending with the number of ids of row 0, padded
\* on the right with -1.
C27_WordListFormat ==
    (word_list # <<>>) =>
        LET P == Max({1} \cup {Len(IdsOf(word_dict[b])) : b \in DOMAIN word_dict})
        IN  /\ DOMAIN word_list = DOMAIN word_dict
            /\ \A b \in DOMAIN word_list :
                  LET ids == IdsOf(word_dict[b])
                      row0 == word_list[b][1]
                      row1 == word_list[b][2]
                      k == Cardinality(EndOffsets(word_dict[b]))
                  IN  /\ Len(word_list[b]) = 2
                      /\ Len(row0) = P
                      /\ Len(row1) = P
                      /\ row0 = ids \o Full(P - Len(ids), 0)
                      /\ {row1[i] : i \in 1..k} = EndOffsets(word_dict[b])
                      /\ \A i \in 1..(k - 1) : row1[i] < row1[i + 1]
                      /\ (k > 0) => row1[k] = Len(ids)
                      /\ \A i \in (k + 1)..P : row1[i] = -1

C27_Witness ==
    /\ word_list # <<>>
    /\ Len(word_dict) = 2
    /\ word_dict[1] = <<"a", ",", "b">>
    /\ word_dict[2] = <<",">>
    /\ word_list[1] = <<<<1, 2, 3>>, <<1, 3, -1>>>>
    /\ word_list[2] = <<<<0, 0, 0>>, <<-1, -1, -1>>>>

\* C28: asking for the logits file with more than one beam is rejected
\* with an error; with one beam the logits file is written.
C28_LogitsFileNeedsOneBeam ==
    (run_args.op = "print_output" /\ run_args.output_logits_npy
        /\ run_args.generation_logits) =>
        IF run_args.num_beams > 1
        THEN run_out.raised # "none"
        ELSE "output_logits_npy" \in run_out.written

\* The decoder calls of the decode, as positions of its log.
DecoderCalls == {i \in DOMAIN ctx_log : ctx_log[i].op = "decoder"}

\* C31: in every step the decoder's source and target cache indirection
\* buffers are two different buffers, and the buffer the decoder wrote at
\* step N is the one bound as cache_indirection for the launch of step N+1
\* and the one the decoder reads as its source at step N+1.
C31_CacheIndirectionPingPong ==
    /\ \A i \in DecoderCalls :
          /\ ctx_log[i].src \in 0..1
          /\ ctx_log[i].tgt \in 0..1
          /\ ctx_log[i].src # ctx_log[i].tgt
    /\ \A i \in DecoderCalls, j \in DOMAIN ctx_log :
          (ctx_log[j].op \in {"launch", "decoder"}
           /\ ctx_log[j].step = ctx_log[i].step + 1) =>
                /\ i < j
                /\ ctx_log[j].src = ctx_log[i].tgt

C31_Witness ==
    /\ \E i \in DecoderCalls : ctx_log[i].step = 1
    /\ \E j \in Launches : ctx_log[j].step = 2 /\ ctx_log[j].graph
    /\ \E j \in DecoderCalls : ctx_log[j].step = 2

\* Step 0 of the running decode is over.
ContextStepDone == ctx_log # <<>> /\ ctx_run.pc # "idle"

\* C34: in CUDA-graph mode the context step of every decode drops both
\* graph instances and is launched directly on ctx_context: from then on an
\* instance is empty or was captured by this decode, so that a graph an
\* earlier decode captured is never launched.
C34_ContextStepDropsGraphs ==
    cuda_graph_mode =>
        /\ \A i \in Launches :
              ctx_log[i].step = 0 =>
                  /\ ~ctx_log[i].graph
                  /\ ctx_log[i].context = runtime.ctx_context
        /\ ContextStepDone =>
              \A k \in 0..1 :
                  \/ ctx_run.graphs[k] = "<none>"
                  \/ ctx_run.captured[k] # Unset
        /\ \A i \in Launches :
              ctx_log[i].graph =>
                  \E j \in 1..(i - 1) :
                      /\ ctx_log[j].op = "next"
                      /\ ctx_log[j].step = ctx_log[i].step - 1
                      /\ ctx_log[j].context = ctx_log[i].context

\* A second decode has run its context step while the runtime still held a
\* graph of the decode before.
C34_Witness ==
    /\ cuda_graph_mode
    /\ ContextStepDone
    /\ ctx_run.pc = "done"
    /\ ctx_run.step = 0
    /\ ctx_run.graphs[0] = "<none>"
    /\ ctx_run.graphs[1] # "<none>"
    /\ ctx_run.graph_bound[0] # Unset

\* C35: in CUDA-graph mode every step n >= 1 is launched as the graph
\* instance n mod 2, which holds the graph step n-1 captured from the
\* context it bound for step n; the capture of step n fills instance
\* (n+1) mod 2 only, and the runtime holds two instances at most.
C35_GraphPingPong ==
    cuda_graph_mode =>
        /\ \A i \in Launches :
              ctx_log[i].step >= 1 =>
                  /\ ctx_log[i].graph
                  /\ ctx_log[i].context = runtime[StepContext(ctx_log[i].step)]
                  /\ BoundNextBefore(i, ctx_log[i].step - 1,
                                     ctx_log[i].context)
        /\ (ctx_run.pc = "loop" /\ ctx_run.step >= 1) =>
              LET n == ctx_run.step IN
              /\ ctx_run.graphs[n % 2] = runtime[StepContext(n)]
              /\ ctx_run.captured[n % 2] = n - 1
              /\ (n >= 2) => ctx_run.captured[(n + 1) % 2] = n - 2
        /\ DOMAIN ctx_run.graphs = 0..1

C35_Witness ==
    /\ cuda_graph_mode
    /\ ctx_run.pc = "loop"
    /\ ctx_run.step = 3
    /\ \E i \in Launches : ctx_log[i].step = 2 /\ ctx_log[i].graph

\* C38: a decode called on a session on which no setup has completed fails
\* with the buffer-not-allocated error, before the dynamic decoder is set up
\* and before any engine launch; buffer_allocated stays false until a setup
\* returns.
C38_DecodeBeforeSetupRejected ==
    [][/\ (pc = "idle" /\ call'.op = "decode" /\ ~buffer_allocated) =>
              /\ result' = Res("decode", "raise", "BufferNotAllocated")
              /\ decoder' = decoder
              /\ trace' = <<>>
              /\ pc' = "idle"
       /\ (~buffer_allocated /\ buffer_allocated') =>
              result' = Res("setup", "return", "none")]_vars

\* C40: _set_tensors binds shape and address for exactly the engine's
\* tensor names that are in the dictionary: names of the dictionary the
\* engine does not declare are ignored, and an engine name that is not in
\* the dictionary is skipped without an error and keeps its earlier
\* binding, in whatever order the engine declares its tensors.
C40_SetTensorsBindsGivenNames ==
    set_call.op = "_set_tensors" =>
        /\ set_call.raised = "none"
        /\ \A name \in EngineTensors :
              IF name \in DOMAIN set_call.tensors
              THEN context_io[name].data = set_call.tensors[name].data
              ELSE context_io[name] = set_call.before[name]

\* The launches of the decode without the attention plugin.
KvLaunches ==
    IF cfg.gpt_attention_plugin THEN {} ELSE DOMAIN io_log

\* C32 (as stated): without the attention plugin, at every even generation
\* step the buffer present_key_value_i is bound as the engine's past cache
\* and 1_present_key_value_i as its present cache, and at every odd
\* generation step the other way round.
C32_EvenStepReadsPrimary ==
    \A k \in KvLaunches : \A i \in LayerRange :
        LET e == io_log[k] IN
        /\ (e.step >= 1 /\ e.step % 2 = 0) =>
              /\ e.kv[i].past = "present_key_value"
              /\ e.kv[i].present = "1_present_key_value"
        /\ (e.step % 2 = 1) =>
              /\ e.kv[i].past = "1_present_key_value"
              /\ e.kv[i].present = "present_key_value"

\* C32 (amended): without the attention plugin the context step writes
\* present_key_value_i; every odd generation step reads present_key_value_i
\* as past and writes 1_present_key_value_i as present, and every even
\* generation step reads 1_present_key_value_i and writes
\* present_key_value_i: the parity is the one of the step that bound the
\* tensors, the step before the launch.
C32_OddStepReadsPrimary ==
    \A k \in KvLaunches : \A i \in LayerRange :
        LET e == io_log[k] IN
        /\ e.step = k - 1
        /\ (e.step = 0) => e.kv[i].present = "present_key_value"
        /\ (e.step % 2 = 1) =>
              /\ e.kv[i].past = "present_key_value"
              /\ e.kv[i].present = "1_present_key_value"
        /\ (e.step >= 1 /\ e.step % 2 = 0) =>
              /\ e.kv[i].past = "1_present_key_value"
              /\ e.kv[i].present = "present_key_value"

C32_Witness ==
    /\ ~cfg.gpt_attention_plugin
    /\ Len(io_log) = 4
    /\ io_log[2].kv[first_layer].past = "present_key_value"
    /\ io_log[3].kv[first_layer].past = "1_present_key_value"
    /\ io_log[4].kv[first_layer].past = "present_key_value"

RECURSIVE TokensBefore(_, _)
TokensBefore(lengths, b) ==
    IF b = 1 THEN 0 ELSE lengths[b - 1] + TokensBefore(lengths, b - 1)

\* The position ids the launch e gives to the tokens of beam k of sequence
\* b: all the tokens of the sequence at the context step, one token later.
PositionsGiven(e, b, k) ==
    LET L == io_run.input_lengths
        row == (b - 1) * beam_width + k
    IN  IF e.step = 0
        THEN IF cfg.remove_input_padding
             THEN SubSeq(e.position_ids[1], TokensBefore(L, b) + 1,
                         TokensBefore(L, b) + L[b])
             ELSE SubSeq(e.position_ids[b], 1, L[b])
        ELSE IF cfg.remove_input_padding
             THEN <<e.position_ids[1][row]>>
             ELSE e.position_ids[row]

\* C39: with the attention plugin sequence b of context length L_b is given
\* the positions 0 .. L_b - 1 at the context step, and the token of each of
\* its beams fed to the launch of step n >= 1 the position L_b + n - 1; the
\* past length bound for the launch of step n >= 1 is
\* max_context_length + n - 1.
C39_PositionsContiguous ==
    cfg.gpt_attention_plugin =>
        \A j \in DOMAIN io_log :
            LET e == io_log[j] IN
            /\ e.step = j - 1
            /\ \A b \in 1..batch_size :
                  LET L == io_run.input_lengths[b] IN
                  IF e.step = 0
                  THEN PositionsGiven(e, b, 1) = [p \in 1..L |-> p - 1]
                  ELSE \A k \in 1..beam_width :
                          PositionsGiven(e, b, k) = <<L + e.step - 1>>
            /\ (e.step >= 1) =>
                  e.host_past_key_value_lengths =
                      [r \in 1..(batch_size * beam_width) |->
                          max_context_length + e.step - 1]

C39_Witness ==
    /\ cfg.gpt_attention_plugin
    /\ cfg.remove_input_padding
    /\ batch_size = 2
    /\ beam_width = 2
    /\ Len(io_log) = 3
    /\ io_run.input_lengths = <<1, 2>>
    /\ io_log[1].position_ids = <<(<<0, 0, 1>>)>>
    /\ io_log[3].position_ids = <<(<<2, 2, 3, 3>>)>>

\* The calls of the decode that free the blocks of every sequence.
Releases == {i \in DOMAIN kv_log : kv_log[i].op = "step" /\ kv_log[i].arg}

C37_DecodeKeepsBufferShapes ==
    (buf_ops # <<>> /\ buf_ops[Len(buf_ops)] = "decode") =>
        /\ DOMAIN self_buffer = DOMAIN setup_buffer
        /\ \A name \in DOMAIN self_buffer :
              self_buffer[name].dims = setup_buffer[name].dims

=============================================================================
